---- MODULE Spec2Model ----
(***************************************************************************)
(* Verification model of the SEC EDGAR ingestion pipeline.                 *)
(*                                                                         *)
(* The parts of the repository that are modelled, each with its own       *)
(* specification over the shared variables:                                *)
(*   SpecIngest      the per-entity incremental ingest (Completion Set),   *)
(*                   src/src/ingest/*.py and src/src/nodes/*.py: ingest(); *)
(*   SpecIngestLive  the same ingest run without process termination,      *)
(*                   with weak fairness of the run's steps;                *)
(*   SpecFilingsFn   process_filings applied to one entity's document;     *)
(*   SpecFactsFn     process_xbrl_facts applied to one entity's document;  *)
(*   SpecWatermark   the single-phase watermark pipeline, src/main.py with *)
(*                   src/assets/*: process_filings, process_xbrl_facts;    *)
(*   SpecTransformFn the two-phase filings transform applied to one        *)
(*                   entity's snapshot;                                    *)
(*   SpecTransform   the two-phase transform runs,                         *)
(*                   src/src/transforms/*/main.py: run().                  *)
(***************************************************************************)
EXTENDS Integers, Sequences, FiniteSets, TLC

VARIABLES
    \* ---- per-entity ingest (one stream observed per behaviour) ----
    stream,        \* "submissions" | "xbrl_facts": the stream of this behaviour
    tickerIndex,   \* raw "company_tickers": the list of index entries
    rawStore,      \* Raw Store of the stream: key (zero-padded cik) -> snapshot
    persisted,     \* State Store of the stream: the saved "completed" list
    ipc,           \* position of the ingest process
    impl,          \* which implementation runs: "ingest" (src/src/ingest) | "nodes"
    completed,     \* run() local: completed
    pending,       \* run() local: pending
    ipos,          \* run() local: index of the current company in pending
    fetched,       \* run() local: outcome of the fetch of the current company
    ierrors,       \* run() local: errors
    inoData,       \* run() local: no_data (facts stream)
    \* ---- history of the ingest (observation only) ----
    runStart,      \* the Completion Set that was persisted when this run started
    fetchLog,      \* cik_str of every fetch issued in this run, in order
    outcomeLog,    \* how each of these fetches ended, in order
    rawWrites,     \* number of Raw Store writes of this run
    stateWrites,   \* number of State Store writes of this run
    prevRun,       \* how the previous run ended: "none" | "killed" | "returned"
    prevFinal,     \* the persisted Completion Set when the previous run ended
    \* ---- one entity's snapshot put through a flattening function ----
    fnDoc,         \* the snapshot of the entity (fetched document, or None)
    fnLast,        \* last_updates.get(cik): the entity's watermark, or None
    fnOut,         \* what the function produced for the entity
    fnPc,          \* "input" | "applied"
    \* ---- the watermark pipeline: main() with process_filings / process_xbrl_facts ----
    asset,         \* "filings" | "facts": the asset of this behaviour
    wmState,       \* State Store of the asset: last_updates, cik -> watermark
    sink,          \* every record handed to upload_data for the asset's dataset
    wpc,           \* position of the pipeline process
    tickersData,   \* tickers_data: the rows process_tickers returned (their cik)
    wpos,          \* index of the current row
    lastUpdates,   \* local: last_updates as loaded
    newLastUpdates,\* local: new_last_updates
    allRecords,    \* local: all_filings / all_facts
    \* ---- history of the watermark pipeline (observation only) ----
    wmBefore,      \* the watermarks persisted when this run started
    unsent,        \* records under a saved watermark that no upload_data call has had
    \* ---- the two-phase transform run (stream, tickerIndex, rawStore as above) ----
    cloud,         \* is_cloud_mode()
    tpc,           \* position of the transform process
    tpos,          \* index of the current ticker entry
    batchRecords,  \* local: all_records (filings) / batch_records (facts)
    companiesProcessed, \* local: companies_processed
    firstBatch,    \* local: first_batch
    totalFacts,    \* local: total_facts
    terrors,       \* local: errors
    dataset,       \* the destination table of the stream's dataset
    published,     \* number of publish() calls made for the dataset
    \* ---- history of the transform (observation only) ----
    tEmitted,      \* every record this run has flattened out of the snapshots
    tPrev,         \* tEmitted of the previous run
    tWrites,       \* the sink writes of this run, in order: mode and records
    tValidated,    \* "no" | "passed" | "failed": the validation of this run
    tRuns,         \* number of runs that ended
    \* ---- the orchestrator main() of src/src/main.py ----
    margs,         \* the command line: "all" | "ingest_only" | "transform_only"
    mpc,           \* position of main()
    mpos,          \* position of the running per-entity ingest in the index
    mlog,          \* what this run of main() has done so far, in order
    \* ---- the rate limiters of the fetch functions ----
    rpipeline,     \* "single_phase" (src/main.py) | "two_phase" (src/src/main.py)
    rnow,          \* the clock, in ticks
    rlim,          \* per decorated function: last_reset and num_calls of its limiter
    rsite,         \* position of the program in the order of its call sites
    rlog,          \* the requests issued so far: call site, time, limiter window
    \* ---- the single-phase pipeline of src/main.py over successive runs ----
    previousTickers, \* state "company_tickers": the saved "tickers" dict, by cik
    tickersBranch, \* "none" | "unchanged" | "changed": what process_tickers found this run
    remoteFilings  \* per cik: the filings the submissions endpoint lists, newest first

ingestVars == <<stream, tickerIndex, rawStore, persisted, ipc, impl, completed,
                pending, ipos, fetched, ierrors, inoData>>
ingestHist == <<runStart, fetchLog, outcomeLog, rawWrites, stateWrites, prevRun, prevFinal>>

fnVars == <<fnDoc, fnLast, fnOut, fnPc>>

wmVars == <<asset, wmState, sink, wpc, tickersData, wpos, lastUpdates, newLastUpdates,
            allRecords, wmBefore, unsent>>

trVars == <<cloud, tpc, tpos, batchRecords, companiesProcessed, firstBatch, totalFacts,
            terrors, dataset, published, tEmitted, tPrev, tWrites, tValidated, tRuns>>

mainVars == <<margs, mpc, mpos, mlog>>

rateVars == <<rpipeline, rnow, rlim, rsite, rlog>>

spVars == <<previousTickers, tickersBranch, remoteFilings>>

vars == <<ingestVars, ingestHist, fnVars, wmVars, trVars, mainVars, rateVars, spVars>>

\* what the actions of one part leave alone
notIngest == <<fnVars, wmVars, trVars, mainVars, rateVars, spVars>>
notFn == <<ingestVars, ingestHist, wmVars, trVars, mainVars, rateVars, spVars>>
notWm == <<ingestVars, ingestHist, fnVars, trVars, mainVars, rateVars, spVars>>
notTr == <<ingestVars, ingestHist, fnVars, wmVars, mainVars, rateVars, spVars>>
notMain == <<stream, rawStore, persisted, ipc, impl, completed, pending, ipos, fetched,
             ierrors, inoData, ingestHist, fnVars, wmVars, trVars, rateVars, spVars>>
notRate == <<ingestVars, ingestHist, fnVars, wmVars, trVars, mainVars, spVars>>

----------------------------------------------------------------------------
\* Bounds of the model.

\* cik_str values of the ticker index are 1..MaxCik
MaxCik == 2
\* the ticker index holds at most MaxIndexLen entries (entries may share a cik)
MaxIndexLen == 2

Ciks == 1..MaxCik

Streams == {"submissions", "xbrl_facts"}
Impls == {"ingest", "nodes"}

----------------------------------------------------------------------------
\* Helpers on sequences.

Range(s) == {s[i] : i \in 1..Len(s)}

SeqsUpTo(S, n) == UNION {[1..k -> S] : k \in 0..n}

RECURSIVE SelectIdx(_, _, _)
\* the list comprehension [s[i] for i in order if Keep(s[i])], from position i on
SelectIdx(s, keep, i) ==
    IF i > Len(s) THEN <<>>
    ELSE IF s[i] \in keep THEN <<s[i]>> \o SelectIdx(s, keep, i + 1)
    ELSE SelectIdx(s, keep, i + 1)

----------------------------------------------------------------------------
\* str(company["cik_str"]).zfill(10): the decimal digits, left-padded with 0.

RECURSIVE Digits(_)
Digits(n) == IF n < 10 THEN <<n>> ELSE Digits(n \div 10) \o <<n % 10>>

RECURSIVE Zfill(_, _)
Zfill(s, w) == IF Len(s) >= w THEN s ELSE Zfill(<<0>> \o s, w)

CikWidth == 10

CikKey(cik_str) == Zfill(Digits(cik_str), CikWidth)

RawKeys == {CikKey(c) : c \in Ciks}

----------------------------------------------------------------------------
\* The remote service and the snapshots of the Raw Store.

\* what one per-entity request can end in: a 200 with a JSON body, or an
\* exception e (HTTP error from raise_for_status, transport error, bad JSON)
Outcomes == {"ok", "http_404", "http_500", "http_500_url404", "empty_msg"}

\* str(e) of the exception of a failed request
StrE(o) ==
    CASE o = "http_404"        -> "404 Not Found"
      [] o = "http_500"        -> "500 Server Error"
      [] o = "http_500_url404" -> "500 Server Error for url CIK0000000404.json"
      [] o = "empty_msg"       -> ""

\* the Python test: "404" in s
Contains404(s) == s \in {"404 Not Found", "500 Server Error for url CIK0000000404.json"}

\* Python's None
None == "None"

\* no file under the key: load_raw_json raises FileNotFoundError
Absent == [kind |-> "absent"]

\* response.json() of a successful request; the ingest never looks inside
Body == [kind |-> "payload"]

ErrorSentinel(msg, key) == [kind |-> "error", error |-> msg, cik |-> key]
NoDataSentinel(key) == [kind |-> "no_data", no_data |-> TRUE, cik |-> key]

IsSentinel(snap) == snap.kind \in {"error", "no_data"}

\* which counter the except-branch increments: the submissions ingest has
\* errors only; the facts ingest tests  "404" in str(e)
CountedAs(st, o) ==
    IF o = "ok" THEN "ok"
    ELSE IF st = "submissions" THEN "error"
    ELSE IF Contains404(StrE(o)) THEN "no_data" ELSE "error"

\* the marker the except-branch saves, per implementation and stream
Sentinel(im, st, o, key) ==
    IF st = "submissions" THEN ErrorSentinel(StrE(o), key)
    ELSE IF im = "ingest" THEN NoDataSentinel(key)
    ELSE IF Contains404(StrE(o)) THEN NoDataSentinel(key)
    ELSE ErrorSentinel(StrE(o), key)

----------------------------------------------------------------------------
\* The per-entity incremental ingest: run() / ingest().

IndexEntries == [cik_str : Ciks, ticker : {"TKR"}, title : {"Index Co"}]

IndexCiks == {tickerIndex[i].cik_str : i \in 1..Len(tickerIndex)}

\* completed = set(state.get("completed", []))
LoadCompletedEmpty == {}
LoadCompleted == persisted

\* pending = [c for c in companies if c["cik_str"] not in completed]
PendingUnfiltered(companies, done) == companies
\* the pending entities taken from the end of the index
PendingReversed(companies, done) ==
    LET p == SelectIdx(companies, {e \in Range(companies) : e.cik_str \notin done}, 1)
    IN [i \in 1..Len(p) |-> p[Len(p) + 1 - i]]
Pending(companies, done) ==
    SelectIdx(companies, {e \in Range(companies) : e.cik_str \notin done}, 1)

\* where the loop body goes after the request: both the try-branch and the
\* except-branch save a snapshot (the payload, or the sentinel)
AfterFetchAbortOnFailure(o) == IF o = "ok" THEN "save_raw" ELSE "aborted"
AfterFetchStateFirst(o) == "save_state"
AfterFetch(o) == "save_raw"

Running == ipc \in {"fetch", "save_raw", "save_state"}

Company == pending[ipos]

\* the parts of the state a specification does not use stay at these values
FnUnused ==
    /\ fnDoc = [kind |-> "none"]
    /\ fnLast = None
    /\ fnOut = [status |-> "unused"]
    /\ fnPc = "unused"

IngestIdle ==
    /\ rawStore = [k \in RawKeys |-> Absent]
    /\ persisted = {}
    /\ ipc = "idle"
    /\ impl = "ingest"
    /\ completed = {}
    /\ pending = <<>>
    /\ ipos = 1
    /\ fetched = "ok"
    /\ ierrors = 0
    /\ inoData = 0
    /\ runStart = {}
    /\ fetchLog = <<>>
    /\ outcomeLog = <<>>
    /\ rawWrites = 0
    /\ stateWrites = 0
    /\ prevRun = "none"
    /\ prevFinal = {}

IngestUnused ==
    /\ stream = "submissions"
    /\ tickerIndex = <<>>
    /\ IngestIdle

WmIdle ==
    /\ wmState = [k \in RawKeys |-> None]
    /\ sink = {}
    /\ wpc = "idle"
    /\ tickersData = <<>>
    /\ wpos = 1
    /\ lastUpdates = [k \in RawKeys |-> None]
    /\ newLastUpdates = [k \in RawKeys |-> None]
    /\ allRecords = <<>>
    /\ wmBefore = [k \in RawKeys |-> None]
    /\ unsent = {}

WmUnused ==
    /\ asset = "filings"
    /\ WmIdle

MainUnused ==
    /\ margs = "all"
    /\ mpc = "unused"
    /\ mpos = 1
    /\ mlog = <<>>

RateUnused ==
    /\ rpipeline = "two_phase"
    /\ rnow = 0
    /\ rlim = <<>>
    /\ rsite = 1
    /\ rlog = <<>>

SpUnused ==
    /\ previousTickers = <<>>
    /\ tickersBranch = "none"
    /\ remoteFilings = <<>>

\* the destination table does not exist
NoTable == [exists |-> FALSE, rows |-> <<>>]

TrIdle ==
    /\ tpc = "idle"
    /\ tpos = 1
    /\ batchRecords = <<>>
    /\ companiesProcessed = 0
    /\ firstBatch = TRUE
    /\ totalFacts = 0
    /\ terrors = 0
    /\ dataset = NoTable
    /\ published = 0
    /\ tEmitted = <<>>
    /\ tPrev = <<>>
    /\ tWrites = <<>>
    /\ tValidated = "no"
    /\ tRuns = 0

TrUnused ==
    /\ cloud = FALSE
    /\ TrIdle

InitIngest ==
    /\ stream \in Streams
    /\ tickerIndex \in SeqsUpTo(IndexEntries, MaxIndexLen)
    /\ IngestIdle
    /\ FnUnused
    /\ WmUnused
    /\ MainUnused
    /\ RateUnused
    /\ SpUnused
    /\ TrUnused

\* load the index and the state, compute pending, return if nothing is pending
IngestStart(im) ==
    /\ ipc = "idle"
    /\ impl' = im
    /\ completed' = LoadCompleted
    /\ pending' = Pending(tickerIndex, LoadCompleted)
    /\ ipos' = 1
    /\ ipc' = IF Pending(tickerIndex, LoadCompleted) = <<>> THEN "done" ELSE "fetch"
    /\ runStart' = persisted
    /\ fetchLog' = <<>>
    /\ outcomeLog' = <<>>
    /\ ierrors' = 0
    /\ inoData' = 0
    /\ rawWrites' = 0
    /\ stateWrites' = 0
    /\ UNCHANGED <<stream, tickerIndex, rawStore, persisted, fetched, prevRun, prevFinal>>
    /\ UNCHANGED notIngest

\* rate_limited_get(url); raise_for_status(); response.json()
IngestFetch(o) ==
    /\ ipc = "fetch"
    /\ fetched' = o
    /\ fetchLog' = Append(fetchLog, Company.cik_str)
    /\ outcomeLog' = Append(outcomeLog, o)
    /\ ipc' = AfterFetch(o)
    /\ UNCHANGED <<stream, tickerIndex, rawStore, persisted, impl, completed, pending,
                   ipos, ierrors, inoData, runStart, rawWrites, stateWrites, prevRun,
                   prevFinal>>
    /\ UNCHANGED notIngest

\* save_raw_json(data, key) or save_raw_json(sentinel, key)
IngestSaveRaw ==
    /\ ipc = "save_raw"
    /\ LET key == CikKey(Company.cik_str)
       IN rawStore' = [rawStore EXCEPT ![key] =
               IF fetched = "ok" THEN Body ELSE Sentinel(impl, stream, fetched, key)]
    /\ ierrors' = IF CountedAs(stream, fetched) = "error" THEN ierrors + 1 ELSE ierrors
    /\ inoData' = IF CountedAs(stream, fetched) = "no_data" THEN inoData + 1 ELSE inoData
    /\ rawWrites' = rawWrites + 1
    /\ ipc' = "save_state"
    /\ UNCHANGED <<stream, tickerIndex, persisted, impl, completed, pending, ipos,
                   fetched, runStart, fetchLog, outcomeLog, stateWrites, prevRun, prevFinal>>
    /\ UNCHANGED notIngest

\* completed.add(company["cik_str"]); save_state(...); next company or end of loop
IngestSaveState ==
    /\ ipc = "save_state"
    /\ completed' = completed \cup {Company.cik_str}
    /\ persisted' = completed \cup {Company.cik_str}
    /\ stateWrites' = stateWrites + 1
    /\ IF ipos < Len(pending)
         THEN ipos' = ipos + 1 /\ ipc' = "fetch"
         ELSE ipos' = ipos /\ ipc' = "done"
    /\ UNCHANGED <<stream, tickerIndex, rawStore, impl, pending, fetched, ierrors,
                   inoData, runStart, fetchLog, outcomeLog, rawWrites, prevRun, prevFinal>>
    /\ UNCHANGED notIngest

\* run() returns: the process ends normally
IngestReturn ==
    /\ ipc = "done"
    /\ ipc' = "idle"
    /\ prevRun' = "returned"
    /\ prevFinal' = persisted
    /\ UNCHANGED <<stream, tickerIndex, rawStore, persisted, impl, completed, pending,
                   ipos, fetched, ierrors, inoData, runStart, fetchLog, outcomeLog,
                   rawWrites, stateWrites>>
    /\ UNCHANGED notIngest

\* the process is terminated inside the loop: its locals are lost, the stores stay
Terminate ==
    /\ Running
    /\ ipc' = "idle"
    /\ completed' = {}
    /\ pending' = <<>>
    /\ ipos' = 1
    /\ fetched' = "ok"
    /\ ierrors' = 0
    /\ inoData' = 0
    /\ prevRun' = "killed"
    /\ prevFinal' = persisted
    /\ UNCHANGED <<stream, tickerIndex, rawStore, persisted, impl, runStart, fetchLog,
                   outcomeLog, rawWrites, stateWrites>>
    /\ UNCHANGED notIngest

IngestStep ==
    \/ \E im \in Impls : IngestStart(im)
    \/ \E o \in Outcomes : IngestFetch(o)
    \/ IngestSaveRaw
    \/ IngestSaveState
    \/ IngestReturn

NextIngest == IngestStep \/ Terminate

SpecIngest == InitIngest /\ [][NextIngest]_vars

SpecIngestLive == InitIngest /\ [][IngestStep]_vars /\ WF_vars(IngestStep)

----------------------------------------------------------------------------
\* Claims about the per-entity ingest.

FetchedCiks == Range(fetchLog)

\* C1: a run that follows a partial run issues fetches only for index entities
\* that are not in the Completion Set persisted at its start (none for an
\* entity already in it, sentinel or not), and when it ends it has fetched
\* exactly those: n - k distinct entities, for n index entities of which k were
\* persisted.
ResumeFetchesOnlyRemaining ==
    /\ ipc # "idle" => FetchedCiks \subseteq (IndexCiks \ runStart)
    /\ ipc = "done" =>
          /\ FetchedCiks = IndexCiks \ runStart
          /\ Cardinality(FetchedCiks) =
                Cardinality(IndexCiks) - Cardinality(runStart \cap IndexCiks)

\* a run after a killed one that had completed an entity with a sentinel, and
\* that fetched the rest
ResumeWitness ==
    /\ prevRun = "killed"
    /\ ipc = "done"
    /\ fetchLog # <<>>
    /\ \E c \in runStart : IsSentinel(rawStore[CikKey(c)])

\* C2: after a run that returned, a further run over the same index issues no
\* fetch, writes neither store and leaves the persisted Completion Set as the
\* first run left it.
SecondRunIsNoOp ==
    (prevRun = "returned" /\ ipc # "idle") =>
        /\ fetchLog = <<>>
        /\ rawWrites = 0
        /\ stateWrites = 0
        /\ persisted = prevFinal
        /\ ipc = "done"

SecondRunWitness ==
    /\ prevRun = "returned"
    /\ ipc = "done"
    /\ prevFinal # {}
    /\ prevFinal = IndexCiks

\* C3: whenever the process can be stopped, every identifier of the persisted
\* Completion Set has a snapshot (payload or sentinel) in the Raw Store.
CompletedHaveSnapshot ==
    \A c \in persisted : rawStore[CikKey(c)].kind \in {"payload", "error", "no_data"}

\* the point between the snapshot write and the state write of an entity,
\* with an earlier entity already persisted
CompletedHaveSnapshotWitness ==
    /\ ipc = "save_state"
    /\ persisted # {}
    /\ Company.cik_str \notin persisted
    /\ rawStore[CikKey(Company.cik_str)].kind # "absent"

\* C10: a run that is not killed ends, whatever the fetches return, and at its
\* end every index entity is in the persisted Completion Set.
IngestRunCompletes ==
    /\ [](ipc = "done" => IndexCiks \subseteq persisted)
    /\ (ipc = "fetch") ~> (ipc = "done")

\* a finished run in which a fetch failed and a later entity was still fetched
IngestRunCompletesWitness ==
    /\ ipc = "done"
    /\ Len(fetchLog) >= 2
    /\ fetchLog[1] # fetchLog[2]
    /\ IsSentinel(rawStore[CikKey(fetchLog[1])])
    /\ IndexCiks \subseteq persisted

----------------------------------------------------------------------------
\* Dates: the strings of the remote documents and Python's datetime values.

\* the date strings the model uses, with the datetime each parses to and the
\* isoformat() of that datetime
DateTable ==
    { [str |-> "1900-01-01", iso |-> "1900-01-01T00:00:00", dt |-> <<1900, 1, 1>>],
      [str |-> "2023-01-01", iso |-> "2023-01-01T00:00:00", dt |-> <<2023, 1, 1>>],
      [str |-> "2023-01-15", iso |-> "2023-01-15T00:00:00", dt |-> <<2023, 1, 15>>],
      [str |-> "2023-02-01", iso |-> "2023-02-01T00:00:00", dt |-> <<2023, 2, 1>>],
      [str |-> "2023-03-31", iso |-> "2023-03-31T00:00:00", dt |-> <<2023, 3, 31>>],
      [str |-> "2023-04-01", iso |-> "2023-04-01T00:00:00", dt |-> <<2023, 4, 1>>],
      [str |-> "2023-06-30", iso |-> "2023-06-30T00:00:00", dt |-> <<2023, 6, 30>>],
      [str |-> "2023-07-01", iso |-> "2023-07-01T00:00:00", dt |-> <<2023, 7, 1>>],
      [str |-> "2023-09-30", iso |-> "2023-09-30T00:00:00", dt |-> <<2023, 9, 30>>],
      [str |-> "2023-10-01", iso |-> "2023-10-01T00:00:00", dt |-> <<2023, 10, 1>>],
      [str |-> "2023-12-31", iso |-> "2023-12-31T00:00:00", dt |-> <<2023, 12, 31>>],
      [str |-> "2024-11-30", iso |-> "2024-11-30T00:00:00", dt |-> <<2024, 11, 30>>] }

\* datetime.strptime(s, "%Y-%m-%d"): raises on anything else (ok = FALSE)
Strptime(s) ==
    IF \E r \in DateTable : r.str = s
      THEN [ok |-> TRUE, dt |-> (CHOOSE r \in DateTable : r.str = s).dt]
      ELSE [ok |-> FALSE, dt |-> <<0, 0, 0>>]

\* dt.isoformat()
Isoformat(dt) == (CHOOSE r \in DateTable : r.dt = dt).iso

\* datetime.fromisoformat(s), for the strings isoformat() wrote
Fromisoformat(s) == (CHOOSE r \in DateTable : r.iso = s).dt

\* the order of datetime values
DtGt(a, b) ==
    \/ a[1] > b[1]
    \/ a[1] = b[1] /\ a[2] > b[2]
    \/ a[1] = b[1] /\ a[2] = b[2] /\ a[3] > b[3]
DtLe(a, b) == ~DtGt(a, b)

\* datetime(1900, 1, 1): "process all if no previous state"
Epoch == <<1900, 1, 1>>

\* f"{dt.year}-Q{(dt.month - 1) // 3 + 1}" and f"{dt.year}-{dt.month:02d}"
QuarterLabel(dt) == <<dt[1], "Q", ((dt[2] - 1) \div 3) + 1>>
MonthLabel(dt) == <<dt[1], Zfill(Digits(dt[2]), 2)>>

\* d.get(key, default) of a Python dict
Get(d, key, default) == IF key \in DOMAIN d THEN d[key] ELSE default

EmptyDict == [k \in {} |-> <<>>]

\* the fetch functions return None when the request failed
NoDoc == [kind |-> "none"]

----------------------------------------------------------------------------
\* process_filings: the body of the loop for one ticker row.

\* last_update_dt: the watermark as a datetime, 1900-01-01 without one
LastUpdateDt(last_update) ==
    IF last_update # None THEN Fromisoformat(last_update) ELSE Epoch

\* the test that skips a filing: filing_dt <= last_update_dt
FilingSkipped(filing_dt, last_update_dt) == DtLe(filing_dt, last_update_dt)

FormName(i) == IF i = 1 THEN "10-K" ELSE IF i = 2 THEN "10-Q" ELSE "8-K"
AccName(i) == <<"acc", i>>

FilingRecord(cik, forms, accs, i, filing_dt) ==
    [ cik |-> cik,
      form_type |-> forms[i],
      filing_date |-> filing_dt,
      accession_number |-> accs[i],
      filing_year |-> filing_dt[1],
      filing_quarter |-> QuarterLabel(filing_dt),
      filing_month |-> MonthLabel(filing_dt) ]

RECURSIVE FilingLoop(_, _, _, _, _, _, _, _)
\* for i, form_type in enumerate(forms): ... (i counts from 1 here)
FilingLoop(cik, forms, dates, accs, last_update_dt, i, recs, most_recent) ==
    IF i > Len(forms) \/ i > Len(dates) \/ i > Len(accs)
      THEN [raised |-> FALSE, records |-> recs, most_recent |-> most_recent]
    ELSE LET parsed == Strptime(dates[i]) IN
      IF ~parsed.ok
        THEN [raised |-> TRUE, records |-> recs, most_recent |-> most_recent]
      ELSE IF FilingSkipped(parsed.dt, last_update_dt)
        THEN FilingLoop(cik, forms, dates, accs, last_update_dt, i + 1, recs, most_recent)
      ELSE FilingLoop(cik, forms, dates, accs, last_update_dt, i + 1,
                      Append(recs, FilingRecord(cik, forms, accs, i, parsed.dt)),
                      IF DtGt(parsed.dt, most_recent) THEN parsed.dt ELSE most_recent)

\* the value stored in new_last_updates[cik] after the loop
NewLastUpdate(last_update, most_recent) ==
    IF DtGt(most_recent, LastUpdateDt(last_update))
      THEN Isoformat(most_recent)
      ELSE IF last_update # None THEN last_update ELSE Isoformat(Epoch)

\* status "skipped": a continue before new_last_updates[cik] is set;
\* status "raised": strptime raised, the exception leaves process_filings
FilingsOfEntity(cik, doc, last_update) ==
    IF doc.kind = "none"
      THEN [status |-> "skipped", records |-> <<>>, entry |-> None]
    ELSE LET recent == Get(Get(doc, "filings", EmptyDict), "recent", EmptyDict) IN
      IF DOMAIN recent = {}
        THEN [status |-> "skipped", records |-> <<>>, entry |-> None]
      ELSE LET r == FilingLoop(cik, Get(recent, "form", <<>>), Get(recent, "filingDate", <<>>),
                               Get(recent, "accessionNumber", <<>>),
                               LastUpdateDt(last_update), 1, <<>>, LastUpdateDt(last_update))
           IN IF r.raised
                THEN [status |-> "raised", records |-> <<>>, entry |-> None]
                ELSE [status |-> "ok", records |-> r.records,
                      entry |-> NewLastUpdate(last_update, r.most_recent)]

----------------------------------------------------------------------------
\* The documents of the submissions endpoint.

\* an entity's arrays hold at most MaxFilings filings
MaxFilings == 2

FilingDateStrs == {"1900-01-01", "2023-01-01", "2023-01-15", "2023-02-01", "not-a-date"}

FormArrays(max) == {[i \in 1..n |-> FormName(i)] : n \in 0..max}
AccArrays(max) == {[i \in 1..n |-> AccName(i)] : n \in 0..max}

\* filings.recent: no keys at all, the three arrays, or no accessionNumber key
RecentDicts(max, dateStrs) ==
    {EmptyDict}
    \cup [form : FormArrays(max), filingDate : SeqsUpTo(dateStrs, max),
          accessionNumber : AccArrays(max)]
    \cup [form : FormArrays(max), filingDate : SeqsUpTo(dateStrs, max)]

SubmissionDoc(recent) == [kind |-> "payload", name |-> "Co", filings |-> [recent |-> recent]]

SubmissionDocs == {SubmissionDoc(r) : r \in RecentDicts(MaxFilings, FilingDateStrs)}

\* the watermarks a run can have stored
Watermarks ==
    {None} \cup {r.iso : r \in {q \in DateTable :
                     q.str \in {"1900-01-01", "2023-01-01", "2023-01-15", "2023-02-01"}}}

----------------------------------------------------------------------------
\* process_filings applied to one entity: every document, every watermark.

InitFilingsFn ==
    /\ fnDoc \in SubmissionDocs \cup {NoDoc}
    /\ fnLast \in Watermarks
    /\ fnOut = [status |-> "unused"]
    /\ fnPc = "input"
    /\ IngestUnused
    /\ WmUnused
    /\ MainUnused
    /\ RateUnused
    /\ SpUnused
    /\ TrUnused

ApplyFilings ==
    /\ fnPc = "input"
    /\ fnOut' = FilingsOfEntity(CikKey(1), fnDoc, fnLast)
    /\ fnPc' = "applied"
    /\ UNCHANGED <<fnDoc, fnLast>>
    /\ UNCHANGED notFn

NextFilingsFn == ApplyFilings

SpecFilingsFn == InitFilingsFn /\ [][NextFilingsFn]_vars

----------------------------------------------------------------------------
\* process_xbrl_facts: the body of the loop for one ticker row.

\* filed_str = fact.get("filed"): the date that gates emission
GateStrEnd(fact) == Get(fact, "end", None)
GateStr(fact) == Get(fact, "filed", None)

\* the period of a fact, as the if/elif chain derives it; ok = FALSE on an
\* unparsable string (except: continue) or when no branch applies
PeriodOf(fact) ==
    IF "start" \in DOMAIN fact /\ "end" \in DOMAIN fact THEN
        IF Strptime(fact["start"]).ok /\ Strptime(fact["end"]).ok
          THEN [ok |-> TRUE, period_type |-> "duration",
                start_date |-> Strptime(fact["start"]).dt,
                end_date |-> Strptime(fact["end"]).dt, instant_date |-> None]
          ELSE [ok |-> FALSE]
    ELSE IF "instant" \in DOMAIN fact THEN
        IF Strptime(fact["instant"]).ok
          THEN [ok |-> TRUE, period_type |-> "instant", start_date |-> None,
                end_date |-> Strptime(fact["instant"]).dt,
                instant_date |-> Strptime(fact["instant"]).dt]
          ELSE [ok |-> FALSE]
    ELSE IF "end" \in DOMAIN fact THEN
        IF Strptime(fact["end"]).ok
          THEN [ok |-> TRUE, period_type |-> "instant", start_date |-> None,
                end_date |-> Strptime(fact["end"]).dt, instant_date |-> None]
          ELSE [ok |-> FALSE]
    ELSE [ok |-> FALSE]

\* the record with the convenience fields taken from the filing date
FactRecordFromFiled(cik, entity_name, e, filed_dt, p) ==
    [ cik |-> cik,
      entity_name |-> entity_name,
      taxonomy |-> e.taxonomy,
      concept |-> e.concept,
      unit |-> e.unit,
      value |-> Get(e.fact, "val", None),
      start_date |-> p.start_date,
      end_date |-> p.end_date,
      instant_date |-> p.instant_date,
      period_type |-> p.period_type,
      filed |-> filed_dt,
      accession |-> Get(e.fact, "accn", ""),
      fact_year |-> filed_dt[1],
      fact_quarter |-> QuarterLabel(filed_dt),
      fact_month |-> MonthLabel(filed_dt) ]

FactRecord(cik, entity_name, e, filed_dt, p) ==
    [ cik |-> cik,
      entity_name |-> entity_name,
      taxonomy |-> e.taxonomy,
      concept |-> e.concept,
      unit |-> e.unit,
      value |-> Get(e.fact, "val", None),
      start_date |-> p.start_date,
      end_date |-> p.end_date,
      instant_date |-> p.instant_date,
      period_type |-> p.period_type,
      filed |-> filed_dt,
      accession |-> Get(e.fact, "accn", ""),
      fact_year |-> p.end_date[1],
      fact_quarter |-> QuarterLabel(p.end_date),
      fact_month |-> MonthLabel(p.end_date) ]

RECURSIVE FactLoop(_, _, _, _, _, _, _)
\* the nested loops over taxonomy, concept, unit and the unit's facts; entries
\* is that traversal in order, one entry per fact
FactLoop(cik, entity_name, entries, last_update_dt, j, recs, most_recent) ==
    IF j > Len(entries) THEN [records |-> recs, most_recent |-> most_recent]
    ELSE LET e == entries[j]
             filed_str == GateStr(e.fact)
             parsed == Strptime(filed_str)
             p == PeriodOf(e.fact)
         IN
      IF filed_str = None \/ ~parsed.ok \/ DtLe(parsed.dt, last_update_dt)
        THEN FactLoop(cik, entity_name, entries, last_update_dt, j + 1, recs, most_recent)
      ELSE LET newest == IF DtGt(parsed.dt, most_recent) THEN parsed.dt ELSE most_recent IN
        IF ~p.ok
          THEN FactLoop(cik, entity_name, entries, last_update_dt, j + 1, recs, newest)
          ELSE FactLoop(cik, entity_name, entries, last_update_dt, j + 1,
                        Append(recs, FactRecord(cik, entity_name, e, parsed.dt, p)), newest)

FactsOfEntity(cik, doc, last_update) ==
    IF doc.kind = "none"
      THEN [status |-> "skipped", records |-> <<>>, entry |-> None]
    ELSE LET r == FactLoop(cik, Get(doc, "entityName", ""), Get(doc, "facts", <<>>),
                           LastUpdateDt(last_update), 1, <<>>, LastUpdateDt(last_update))
         IN [status |-> "ok", records |-> r.records,
             entry |-> NewLastUpdate(last_update, r.most_recent)]

----------------------------------------------------------------------------
\* The documents of the companyfacts endpoint.

\* an entity's document holds at most MaxFacts facts
MaxFacts == 2

FiledParts ==
    {EmptyDict} \cup {[filed |-> d] : d \in {"not-a-date", "2023-01-15", "2023-02-01"}}

PeriodParts ==
    { EmptyDict,
      [end |-> "2023-01-01"],
      [end |-> "not-a-date"],
      [instant |-> "2023-01-15"],
      [start |-> "2023-01-01", end |-> "2023-02-01"],
      [start |-> "not-a-date", end |-> "2023-01-01"] }

\* the fact at position j of the document
FactAt(j, filedPart, periodPart) ==
    [val |-> 100, accn |-> AccName(j)] @@ filedPart @@ periodPart

FactEntry(fact) == [taxonomy |-> "us-gaap", concept |-> "Assets", unit |-> "USD", fact |-> fact]

FactEntryLists(max, filedParts, periodParts) ==
    UNION { { [j \in 1..n |-> FactEntry(FactAt(j, fp[j], pp[j]))] :
                fp \in [1..n -> filedParts], pp \in [1..n -> periodParts] } :
            n \in 0..max }

FactsDoc(entries) == [kind |-> "payload", entityName |-> "Co", facts |-> entries]

FactsDocs == {FactsDoc(es) : es \in FactEntryLists(MaxFacts, FiledParts, PeriodParts)}

\* units {"USD": [{"val": 100, "end": "2023-01-01", "filed": "2023-02-01"}]}
ScenarioFactsDoc ==
    FactsDoc(<<FactEntry(FactAt(1, [filed |-> "2023-02-01"], [end |-> "2023-01-01"]))>>)

----------------------------------------------------------------------------
\* process_xbrl_facts applied to one entity: every document, every watermark.

InitFactsFn ==
    /\ fnDoc \in FactsDocs \cup {NoDoc}
    /\ fnLast \in Watermarks
    /\ fnOut = [status |-> "unused"]
    /\ fnPc = "input"
    /\ IngestUnused
    /\ WmUnused
    /\ MainUnused
    /\ RateUnused
    /\ SpUnused
    /\ TrUnused

ApplyFacts ==
    /\ fnPc = "input"
    /\ fnOut' = FactsOfEntity(CikKey(1), fnDoc, fnLast)
    /\ fnPc' = "applied"
    /\ UNCHANGED <<fnDoc, fnLast>>
    /\ UNCHANGED notFn

NextFactsFn == ApplyFacts

SpecFactsFn == InitFactsFn /\ [][NextFactsFn]_vars

----------------------------------------------------------------------------
\* Claims about the watermark filter of one entity.

TruncatedRange(recent) ==
    LET nf == Len(Get(recent, "form", <<>>))
        nd == Len(Get(recent, "filingDate", <<>>))
        na == Len(Get(recent, "accessionNumber", <<>>))
        m == IF nf <= nd THEN nf ELSE nd
    IN 1..(IF m <= na THEN m ELSE na)

FilingEmitted(i) ==
    \E k \in 1..Len(fnOut.records) : fnOut.records[k].accession_number = AccName(i)

\* "strictly later than the entity's watermark; without a watermark, all"
LaterThanWatermark(dateStr, wm) ==
    IF wm = None THEN TRUE
    ELSE Strptime(dateStr).ok /\ DtGt(Strptime(dateStr).dt, Fromisoformat(wm))

\* C6 (as claimed): once process_filings has handled an entity's document,
\* position i of the truncated range has a record if and only if filingDate[i]
\* is strictly later than the watermark read at the start (all positions when
\* the entity has no watermark).
FilingsEmittedIffNewer ==
    (fnPc = "applied" /\ fnDoc.kind = "payload") =>
        \A i \in TruncatedRange(fnDoc.filings.recent) :
            FilingEmitted(i) <=>
                LaterThanWatermark(fnDoc.filings.recent.filingDate[i], fnLast)

FactEmitted(j) ==
    \E k \in 1..Len(fnOut.records) : fnOut.records[k].accession = AccName(j)

\* the fact has a period the record can carry: the fields the period is read
\* from are present and parse
UsablePeriod(fact) ==
    LET ok(key) == key \in DOMAIN fact /\ Strptime(fact[key]).ok IN
    IF "start" \in DOMAIN fact /\ "end" \in DOMAIN fact THEN ok("start") /\ ok("end")
    ELSE IF "instant" \in DOMAIN fact THEN ok("instant")
    ELSE ok("end")

FiledLater(fact, wm) ==
    /\ "filed" \in DOMAIN fact
    /\ Strptime(fact["filed"]).ok
    /\ DtGt(Strptime(fact["filed"]).dt, IF wm = None THEN Epoch ELSE Fromisoformat(wm))

\* C7: a fact with a usable period date is emitted if and only if its filed
\* date is later than the watermark (the end date plays no part); the fact
\* {val 100, end 2023-01-01, filed 2023-02-01} under watermark 2023-01-15
\* gives exactly one record.
FactsGateOnFiled ==
    fnPc = "applied" =>
        /\ fnDoc.kind = "payload" =>
              \A j \in 1..Len(fnDoc.facts) :
                  UsablePeriod(fnDoc.facts[j].fact) =>
                      (FactEmitted(j) <=> FiledLater(fnDoc.facts[j].fact, fnLast))
        /\ (fnDoc = ScenarioFactsDoc /\ fnLast = "2023-01-15T00:00:00") =>
              Len(fnOut.records) = 1

\* the scenario document under watermark 2023-01-15, after the function ran
FactsGateOnFiledWitness ==
    /\ fnPc = "applied"
    /\ fnDoc = ScenarioFactsDoc
    /\ fnLast = "2023-01-15T00:00:00"
    /\ Len(fnOut.records) = 1
    /\ DtLe(fnOut.records[1].end_date, Fromisoformat(fnLast))

----------------------------------------------------------------------------
\* The watermark pipeline: main() calling process_filings / process_xbrl_facts
\* and then upload_data.

Assets == {"filings", "facts"}

\* the documents a run of the pipeline can fetch hold at most MaxRunItems items
MaxRunItems == 1

RunDateStrs == {"2023-01-15", "2023-02-01", "not-a-date"}

RunSubmissionDocs == {SubmissionDoc(r) : r \in RecentDicts(MaxRunItems, RunDateStrs)}

RunFactsDocs ==
    {FactsDoc(es) : es \in FactEntryLists(MaxRunItems,
                               {EmptyDict, [filed |-> "2023-01-15"], [filed |-> "2023-02-01"]},
                               {[end |-> "2023-01-01"], [end |-> "not-a-date"]})}

\* what fetch_company_submissions / fetch_company_facts can return
FetchResults(a) == {NoDoc} \cup (IF a = "filings" THEN RunSubmissionDocs ELSE RunFactsDocs)

\* the rows of tickers_data: process_tickers keys its records by cik, so no cik
\* occurs twice; it returns no rows when the index did not change
TickerTables ==
    {rows \in SeqsUpTo(RawKeys, Cardinality(RawKeys)) :
        \A i, j \in 1..Len(rows) : i # j => rows[i] # rows[j]}

\* the loop body for one row, by asset
OfEntity(a, cik, doc, last_update) ==
    IF a = "filings" THEN FilingsOfEntity(cik, doc, last_update)
    ELSE FactsOfEntity(cik, doc, last_update)

\* main() is started: process_tickers returned rows; the asset's function
\* returns an empty table for no rows, otherwise loads its state
PipelineStart(rows) ==
    /\ wpc = "idle"
    /\ tickersData' = rows
    /\ wpos' = 1
    /\ lastUpdates' = wmState
    /\ newLastUpdates' = [k \in RawKeys |-> None]
    /\ allRecords' = <<>>
    /\ wmBefore' = wmState
    /\ wpc' = IF rows = <<>> THEN "returned_empty" ELSE "loop"
    /\ UNCHANGED <<asset, wmState, sink, unsent>>
    /\ UNCHANGED notWm

\* one row: fetch the entity's document and flatten it
PipelineEntity(doc) ==
    /\ wpc = "loop"
    /\ doc \in FetchResults(asset)
    /\ LET cik == tickersData[wpos]
           r == OfEntity(asset, cik, doc, lastUpdates[cik])
       IN IF r.status = "raised"
            THEN /\ wpc' = "crashed"
                 /\ UNCHANGED <<wpos, newLastUpdates, allRecords>>
            ELSE /\ allRecords' = allRecords \o r.records
                 /\ newLastUpdates' =
                        IF r.status = "skipped" THEN newLastUpdates
                        ELSE [newLastUpdates EXCEPT ![cik] = r.entry]
                 /\ IF wpos < Len(tickersData)
                      THEN wpos' = wpos + 1 /\ wpc' = "loop"
                      ELSE wpos' = wpos /\ wpc' = "save_state"
    /\ UNCHANGED <<asset, wmState, sink, tickersData, lastUpdates, wmBefore, unsent>>
    /\ UNCHANGED notWm

\* save_state(name, {"last_updates": new_last_updates, ...}), then return table
PipelineSaveState ==
    /\ wpc = "save_state"
    /\ wmState' = newLastUpdates
    /\ unsent' = unsent \cup (Range(allRecords) \ sink)
    /\ wpc' = "returned"
    /\ UNCHANGED <<asset, sink, tickersData, wpos, lastUpdates, newLastUpdates,
                   allRecords, wmBefore>>
    /\ UNCHANGED notWm

\* main(): if table.num_rows > 0: upload_data(table, dataset)
PipelineUpload ==
    /\ wpc \in {"returned", "returned_empty"}
    /\ sink' = IF Len(allRecords) > 0 THEN sink \cup Range(allRecords) ELSE sink
    /\ wpc' = "done"
    /\ UNCHANGED <<asset, wmState, tickersData, wpos, lastUpdates, newLastUpdates,
                   allRecords, wmBefore, unsent>>
    /\ UNCHANGED notWm

\* with the process its locals are gone
LocalsLost ==
    /\ tickersData' = <<>>
    /\ wpos' = 1
    /\ lastUpdates' = [k \in RawKeys |-> None]
    /\ newLastUpdates' = [k \in RawKeys |-> None]
    /\ allRecords' = <<>>
    /\ wmBefore' = [k \in RawKeys |-> None]

\* the process ends: main() returned, or an exception left it
PipelineExit ==
    /\ wpc \in {"done", "crashed"}
    /\ wpc' = "idle"
    /\ LocalsLost
    /\ UNCHANGED <<asset, wmState, sink, unsent>>
    /\ UNCHANGED notWm

\* the process is terminated before main() is through
PipelineKill ==
    /\ wpc \in {"loop", "save_state", "returned", "returned_empty"}
    /\ wpc' = "idle"
    /\ LocalsLost
    /\ UNCHANGED <<asset, wmState, sink, unsent>>
    /\ UNCHANGED notWm

InitWatermark ==
    /\ asset \in Assets
    /\ WmIdle
    /\ MainUnused
    /\ RateUnused
    /\ SpUnused
    /\ IngestUnused
    /\ FnUnused
    /\ TrUnused

NextWatermark ==
    \/ \E rows \in TickerTables : PipelineStart(rows)
    \/ \E doc \in FetchResults("filings") \cup FetchResults("facts") : PipelineEntity(doc)
    \/ PipelineSaveState
    \/ PipelineUpload
    \/ PipelineExit
    \/ PipelineKill

SpecWatermark == InitWatermark /\ [][NextWatermark]_vars

----------------------------------------------------------------------------
\* Claims about the watermark pipeline.

\* C4 (as claimed): the Watermark Map is persisted only after the records that
\* justify it were handed to the sink, so at no point, a termination included,
\* does a persisted watermark cover a record that was not uploaded.
WatermarkSavedAfterUpload == unsent = {}

\* C5 (as claimed): every entity of the run that had a watermark before the run
\* still has one once the run has saved its state, and it is not lower; also
\* when the entity's fetch failed or its document had no recent filings.
WatermarkKeptAndMonotone ==
    wpc \in {"returned", "done"} =>
        \A i \in 1..Len(tickersData) :
            LET cik == tickersData[i] IN
            wmBefore[cik] # None =>
                /\ wmState[cik] # None
                /\ DtLe(Fromisoformat(wmBefore[cik]), Fromisoformat(wmState[cik]))

----------------------------------------------------------------------------
\* The two-phase transforms: the body of the loop for one index entry.

\* bool(v) of a string-or-None field of a snapshot
Truthy(v) == v \notin {None, ""}

\* bool(v) of an element of isXBRL / isInlineXBRL (0 or 1 in the documents)
Bool(v) == v # 0

\* arr[i] if i < len(arr) else default, for the 0-based i of position i
ElemOr(arr, i, default) == IF i <= Len(arr) THEN arr[i] ELSE default

\* the fields taken from the optional arrays of filings.recent
OptionalFields(recent, i) ==
    LET report_dates == Get(recent, "reportDate", <<>>)
        is_xbrl_list == Get(recent, "isXBRL", <<>>)
        is_inline_xbrl_list == Get(recent, "isInlineXBRL", <<>>)
    IN
    [ file_number |-> ElemOr(Get(recent, "fileNumber", <<>>), i, None),
      report_date |-> IF i <= Len(report_dates) /\ Truthy(report_dates[i])
                      THEN report_dates[i] ELSE None,
      is_xbrl |-> IF i <= Len(is_xbrl_list) THEN Bool(is_xbrl_list[i]) ELSE FALSE,
      is_inline_xbrl |-> IF i <= Len(is_inline_xbrl_list)
                         THEN Bool(is_inline_xbrl_list[i]) ELSE FALSE,
      primary_document |-> ElemOr(Get(recent, "primaryDocument", <<>>), i, None) ]

TransformFilingRecord(cik, company_name, recent, forms, dates, accs, i) ==
    [ cik |-> cik,
      company_name |-> company_name,
      form_type |-> forms[i],
      filing_date |-> dates[i],
      accession_number |-> accs[i] ] @@ OptionalFields(recent, i)

RECURSIVE TransformFilingLoopNoAccCheck(_, _, _, _, _, _, _, _)
TransformFilingLoopNoAccCheck(cik, company_name, recent, forms, dates, accs, i, recs) ==
    IF i > Len(forms) \/ i > Len(dates) THEN recs
    ELSE TransformFilingLoopNoAccCheck(cik, company_name, recent, forms, dates, accs, i + 1,
            Append(recs, [ cik |-> cik, company_name |-> company_name,
                           form_type |-> forms[i], filing_date |-> dates[i],
                           accession_number |->
                               IF i <= Len(accs) THEN accs[i] ELSE None ]
                         @@ OptionalFields(recent, i)))

RECURSIVE TransformFilingLoopAllArrays(_, _, _, _, _, _, _, _)
\* the loop with the break test extended to an optional array
TransformFilingLoopAllArrays(cik, company_name, recent, forms, dates, accs, i, recs) ==
    IF \/ i > Len(forms) \/ i > Len(dates) \/ i > Len(accs)
       \/ i > Len(Get(recent, "fileNumber", <<>>))
    THEN recs
    ELSE TransformFilingLoopAllArrays(cik, company_name, recent, forms, dates, accs, i + 1,
            Append(recs, TransformFilingRecord(cik, company_name, recent, forms, dates, accs, i)))

RECURSIVE TransformFilingLoop(_, _, _, _, _, _, _, _)
\* for i, form_type in enumerate(forms):
\*     if i >= len(filing_dates) or i >= len(accession_numbers): break
TransformFilingLoop(cik, company_name, recent, forms, dates, accs, i, recs) ==
    IF i > Len(forms) \/ i > Len(dates) \/ i > Len(accs) THEN recs
    ELSE TransformFilingLoop(cik, company_name, recent, forms, dates, accs, i + 1,
            Append(recs, TransformFilingRecord(cik, company_name, recent, forms, dates, accs, i)))

\* status "missing": load_raw_json raised FileNotFoundError (errors += 1);
\* "skipped": a continue without records; "ok": the entity was processed
TransformFilingsOfEntity(cik, data) ==
    IF data.kind = "absent" THEN [status |-> "missing", records |-> <<>>]
    ELSE IF Truthy(Get(data, "error", None)) THEN [status |-> "skipped", records |-> <<>>]
    ELSE LET recent == Get(Get(data, "filings", EmptyDict), "recent", EmptyDict) IN
      IF DOMAIN recent = {} THEN [status |-> "skipped", records |-> <<>>]
      ELSE [status |-> "ok",
            records |-> TransformFilingLoop(cik, Get(data, "name", ""), recent,
                            Get(recent, "form", <<>>), Get(recent, "filingDate", <<>>),
                            Get(recent, "accessionNumber", <<>>), 1, <<>>)]

\* end_date = fact.get("end") or fact.get("instant")
EndOrInstant(fact) ==
    IF Truthy(Get(fact, "end", None)) THEN fact["end"] ELSE Get(fact, "instant", None)

TransformFactRecord(cik, entity_name, e) ==
    [ cik |-> cik,
      entity_name |-> entity_name,
      taxonomy |-> e.taxonomy,
      concept |-> e.concept,
      unit |-> e.unit,
      value |-> Get(e.fact, "val", None),
      end_date |-> EndOrInstant(e.fact),
      filed |-> e.fact["filed"],
      accession |-> Get(e.fact, "accn", "") ]

RECURSIVE ExtractLoop(_, _, _, _, _)
ExtractLoop(cik, entity_name, entries, j, recs) ==
    IF j > Len(entries) THEN recs
    ELSE IF ~Truthy(Get(entries[j].fact, "filed", None)) \/ ~Truthy(EndOrInstant(entries[j].fact))
      THEN ExtractLoop(cik, entity_name, entries, j + 1, recs)
      ELSE ExtractLoop(cik, entity_name, entries, j + 1,
                       Append(recs, TransformFactRecord(cik, entity_name, entries[j])))

\* extract_company_facts(cik), with the except FileNotFoundError of run()
ExtractCompanyFacts(cik, data) ==
    IF data.kind = "absent" THEN [status |-> "missing", records |-> <<>>]
    ELSE IF Get(data, "no_data", FALSE) \/ Truthy(Get(data, "error", None))
      THEN [status |-> "ok", records |-> <<>>]
    ELSE [status |-> "ok",
          records |-> ExtractLoop(cik, Get(data, "entityName", ""),
                                  Get(data, "facts", <<>>), 1, <<>>)]

----------------------------------------------------------------------------
\* The filings transform applied to one entity: every snapshot of the store.

\* "ticker": ticker_info.get("ticker") or data.get("tickers", [None])[0]
\*               if data.get("tickers") else None
CompanyTicker(data, ticker_info) ==
    IF Get(data, "tickers", <<>>) # <<>>
    THEN (IF Truthy(Get(ticker_info, "ticker", None)) THEN ticker_info["ticker"]
          ELSE data["tickers"][1])
    ELSE None

\* "name": data.get("name") or ticker_info.get("title", "")
CompanyName(data, ticker_info) ==
    IF Truthy(Get(data, "name", None)) THEN data["name"] ELSE Get(ticker_info, "title", "")

CompanyRecord(cik, data, ticker_info) ==
    [ cik |-> cik,
      ticker |-> CompanyTicker(data, ticker_info),
      name |-> CompanyName(data, ticker_info),
      sic_code |-> Get(data, "sic", None),
      entity_type |-> Get(data, "entityType", None) ]

\* the loop body of the companies transform for one ticker entry
CompanyOfEntity(cik, data, ticker_info) ==
    IF data.kind = "absent" THEN [status |-> "missing", records |-> <<>>]
    ELSE IF Truthy(Get(data, "error", None)) THEN [status |-> "skipped", records |-> <<>>]
    ELSE [status |-> "ok", records |-> <<CompanyRecord(cik, data, ticker_info)>>]

ErrorMsgs == {StrE(o) : o \in Outcomes \ {"ok"}}

\* the optional arrays of filings.recent, all of n elements
OptionalArrays(n) ==
    [ fileNumber |-> [i \in 1..n |-> <<"001", i>>],
      reportDate |-> [i \in 1..n |-> IF i = 1 THEN "2022-12-31" ELSE ""],
      isXBRL |-> [i \in 1..n |-> i % 2],
      isInlineXBRL |-> [i \in 1..n |-> (i + 1) % 2],
      primaryDocument |-> [i \in 1..n |-> <<"doc", i>>] ]

\* no optional key at all, or the optional arrays empty, of one element, or
\* as long as the longest required array
OptionalParts(max) == {EmptyDict} \cup {OptionalArrays(n) : n \in {0, 1, max}}

SubmissionSnapshots ==
    {SubmissionDoc(r @@ o) : r \in RecentDicts(MaxFilings, FilingDateStrs),
                             o \in OptionalParts(MaxFilings)}
    \cup {Absent} \cup {ErrorSentinel(m, CikKey(1)) : m \in ErrorMsgs}

\* what the facts ingest can leave under the key, or nothing
FactsSnapshots ==
    FactsDocs \cup {Absent, NoDataSentinel(CikKey(1))}
    \cup {ErrorSentinel(m, CikKey(1)) : m \in ErrorMsgs}

InitTransformFn ==
    /\ stream \in Streams
    /\ tickerIndex = <<>>
    /\ IngestIdle
    /\ fnDoc \in IF stream = "submissions" THEN SubmissionSnapshots ELSE FactsSnapshots
    /\ fnLast = None
    /\ fnOut = [status |-> "unused"]
    /\ fnPc = "input"
    /\ WmUnused
    /\ MainUnused
    /\ RateUnused
    /\ SpUnused
    /\ TrUnused

ApplyTransformFilings ==
    /\ fnPc = "input"
    /\ stream = "submissions"
    /\ fnOut' = TransformFilingsOfEntity(CikKey(1), fnDoc)
    /\ fnPc' = "applied"
    /\ UNCHANGED <<fnDoc, fnLast>>
    /\ UNCHANGED notFn

\* the companies transform reads the same submissions snapshot
ApplyTransformCompanies ==
    /\ fnPc = "input"
    /\ stream = "submissions"
    /\ \E e \in IndexEntries :
          /\ e.cik_str = 1
          /\ fnOut' = CompanyOfEntity(CikKey(1), fnDoc, e)
    /\ fnPc' = "applied_companies"
    /\ UNCHANGED <<fnDoc, fnLast>>
    /\ UNCHANGED notFn

ApplyTransformFacts ==
    /\ fnPc = "input"
    /\ stream = "xbrl_facts"
    /\ fnOut' = ExtractCompanyFacts(CikKey(1), fnDoc)
    /\ fnPc' = "applied_facts"
    /\ UNCHANGED <<fnDoc, fnLast>>
    /\ UNCHANGED notFn

NextTransformFn ==
    \/ ApplyTransformFilings
    \/ ApplyTransformCompanies
    \/ ApplyTransformFacts

SpecTransformFn == InitTransformFn /\ [][NextTransformFn]_vars

\* the snapshot with form = ["10-K", "10-Q"], filingDate = ["2023-01-01"]
MismatchedArrays(recent) ==
    /\ Get(recent, "form", <<>>) = <<"10-K", "10-Q">>
    /\ Get(recent, "filingDate", <<>>) = <<"2023-01-01">>

\* C9 (as claimed): the snapshot whose recent filings hold form = [10-K, 10-Q]
\* and filingDate = [2023-01-01] and nothing else gives exactly 1 record.
MismatchedArraysGiveOneRecord ==
    (/\ fnPc = "applied"
     /\ fnDoc.kind = "payload"
     /\ MismatchedArrays(fnDoc.filings.recent)
     /\ DOMAIN fnDoc.filings.recent = {"form", "filingDate"}) =>
        Len(fnOut.records) = 1

\* C9 (amended): with form = [10-K, 10-Q] and filingDate = [2023-01-01] the
\* transform emits 1 record, that of position 0, when accessionNumber holds at
\* least one element, and 0 records when accessionNumber is missing or empty;
\* never 2.
MismatchedArraysTruncate ==
    (/\ fnPc = "applied"
     /\ fnDoc.kind = "payload"
     /\ MismatchedArrays(fnDoc.filings.recent)) =>
        LET accs == Get(fnDoc.filings.recent, "accessionNumber", <<>>) IN
        /\ Len(accs) >= 1 =>
              /\ Len(fnOut.records) = 1
              /\ fnOut.records[1].form_type = "10-K"
              /\ fnOut.records[1].filing_date = "2023-01-01"
              /\ fnOut.records[1].accession_number = accs[1]
        /\ Len(accs) = 0 => Len(fnOut.records) = 0

MismatchedArraysWitness ==
    /\ fnPc = "applied"
    /\ fnDoc.kind = "payload"
    /\ MismatchedArrays(fnDoc.filings.recent)
    /\ Len(Get(fnDoc.filings.recent, "accessionNumber", <<>>)) = 2
    /\ Len(fnOut.records) = 1

----------------------------------------------------------------------------
\* The two-phase transform run: run() of transforms/edgar_filings (stream
\* "submissions") and of transforms/xbrl_company_facts (stream "xbrl_facts").

\* length of the ticker index a transform run is given
MaxTransformLen == 3
\* BATCH_SIZE (500 in the source), scaled
BatchSize == 2
\* min_rows / the row-count floor (100000 in the source), scaled
MinRows == 1
\* runs observed per behaviour
MaxRuns == 2

\* snapshots with n complete filings / n complete facts
RunFilingsSnapshot(n) ==
    SubmissionDoc([form |-> [i \in 1..n |-> FormName(i)],
                   filingDate |-> [i \in 1..n |-> "2023-01-15"],
                   accessionNumber |-> [i \in 1..n |-> AccName(i)]])

RunFactsSnapshot(n) ==
    FactsDoc([j \in 1..n |->
                FactEntry(FactAt(j, [filed |-> "2023-02-01"], [end |-> "2023-01-01"]))])

\* what the Raw Store can hold under one key after the ingest of the stream
StoredSnapshots(st, key) ==
    {Absent, ErrorSentinel("500 Server Error", key)}
    \cup (IF st = "submissions"
          THEN {RunFilingsSnapshot(n) : n \in 0..MaxRunItems}
          ELSE {NoDataSentinel(key)} \cup {RunFactsSnapshot(n) : n \in 0..MaxRunItems})

RawStores(st) ==
    {f \in [RawKeys -> UNION {StoredSnapshots(st, k) : k \in RawKeys}] :
        \A k \in RawKeys : f[k] \in StoredSnapshots(st, k)}

\* the loop body with the except-branch falling through without counting
TransformOfEntityUncounted(st, cik, data) ==
    IF data.kind = "absent" THEN [status |-> "skipped", records |-> <<>>]
    ELSE IF st = "submissions" THEN TransformFilingsOfEntity(cik, data)
    ELSE ExtractCompanyFacts(cik, data)

\* the loop body for one ticker entry, by stream
TransformOfEntity(st, cik, data) ==
    IF st = "submissions" THEN TransformFilingsOfEntity(cik, data)
    ELSE ExtractCompanyFacts(cik, data)

\* the records of an entity that go into the run's output
EmittedOnlyNew(records, previous) ==
    SelectSeq(records, LAMBDA r : r \notin Range(previous))

\* all_records.append(...) / batch_records.extend(records): the transforms
\* keep nothing from one run to the next, every flattened record goes out
Emitted(records, previous) == records

\* mode = "overwrite" if first_batch else "append"
WriteModeAppend(first) == "append"
WriteMode(first) == IF first THEN "overwrite" ELSE "append"

\* write_deltalake(table_uri, table, mode = ...)
WriteDelta(table, rows, mode) ==
    IF mode = "overwrite" \/ ~table.exists THEN [exists |-> TRUE, rows |-> rows]
    ELSE [exists |-> TRUE, rows |-> table.rows \o rows]

\* what the write after the loop sends: whatever is left in the buffer
FinalBatchDropped(buf) == <<>>
FinalBatch(buf) == buf

\* filings: test(table), whose content assertions can fail for any table but
\* never pass below min_rows; facts: DeltaTable(table_uri) raises when there
\* is no table, then the row count of the table is compared with the floor
ValidationSkipped(st, contentOk, table, buf) == TRUE
ValidationPasses(st, contentOk, table, buf) ==
    IF st = "submissions" THEN contentOk /\ Len(buf) >= MinRows
    ELSE table.exists /\ Len(table.rows) >= MinRows

\* run() starts: the locals; the facts run in local mode removes the table
TStart ==
    /\ tpc = "idle"
    /\ tRuns < MaxRuns
    /\ tpc' = "loop"
    /\ tpos' = 1
    /\ batchRecords' = <<>>
    /\ companiesProcessed' = 0
    /\ firstBatch' = TRUE
    /\ totalFacts' = 0
    /\ terrors' = 0
    /\ tEmitted' = <<>>
    /\ tWrites' = <<>>
    /\ tValidated' = "no"
    /\ dataset' = IF stream = "xbrl_facts" /\ ~cloud THEN NoTable ELSE dataset
    /\ UNCHANGED <<cloud, published, tPrev, tRuns>>
    /\ UNCHANGED notTr

\* one iteration of  for ticker_entry in tickers
TEntity ==
    /\ tpc = "loop"
    /\ tpos <= Len(tickerIndex)
    /\ LET cik == CikKey(tickerIndex[tpos].cik_str)
           r == TransformOfEntity(stream, cik, rawStore[cik])
           out == Emitted(r.records, tPrev)
           buf == batchRecords \o out
           n == IF stream = "submissions"
                THEN (IF r.status = "ok" THEN companiesProcessed + 1 ELSE companiesProcessed)
                ELSE companiesProcessed + 1
           flush == /\ stream = "xbrl_facts"
                    /\ r.status # "missing"
                    /\ n % BatchSize = 0
                    /\ buf # <<>>
       IN
       /\ terrors' = IF r.status = "missing" THEN terrors + 1 ELSE terrors
       /\ companiesProcessed' = n
       /\ tEmitted' = tEmitted \o out
       /\ IF flush
          THEN /\ dataset' = WriteDelta(dataset, buf, WriteMode(firstBatch))
               /\ tWrites' = Append(tWrites, [mode |-> WriteMode(firstBatch), rows |-> buf])
               /\ totalFacts' = totalFacts + Len(buf)
               /\ batchRecords' = <<>>
               /\ firstBatch' = FALSE
          ELSE /\ batchRecords' = buf
               /\ UNCHANGED <<dataset, tWrites, totalFacts, firstBatch>>
    /\ tpos' = tpos + 1
    /\ UNCHANGED <<cloud, tpc, published, tPrev, tValidated, tRuns>>
    /\ UNCHANGED notTr

\* the loop is over: the facts run writes the final partial batch
TEndLoop ==
    /\ tpc = "loop"
    /\ tpos > Len(tickerIndex)
    /\ IF stream = "xbrl_facts" /\ FinalBatch(batchRecords) # <<>>
       THEN /\ dataset' = WriteDelta(dataset, FinalBatch(batchRecords), WriteMode(firstBatch))
            /\ tWrites' = Append(tWrites, [mode |-> WriteMode(firstBatch),
                                           rows |-> FinalBatch(batchRecords)])
            /\ totalFacts' = totalFacts + Len(FinalBatch(batchRecords))
            /\ batchRecords' = <<>>
       ELSE UNCHANGED <<dataset, tWrites, totalFacts, batchRecords>>
    /\ tpc' = "validate"
    /\ UNCHANGED <<cloud, tpos, companiesProcessed, firstBatch, terrors, published,
                   tEmitted, tPrev, tValidated, tRuns>>
    /\ UNCHANGED notTr

\* filings: test(table); facts: the row count of the Delta table
TValidate(contentOk) ==
    /\ tpc = "validate"
    /\ stream = "xbrl_facts" => contentOk
    /\ LET passes == ValidationPasses(stream, contentOk, dataset, batchRecords) IN
       /\ tValidated' = IF passes THEN "passed" ELSE "failed"
       /\ tpc' = IF ~passes THEN "failed"
                 ELSE IF stream = "submissions" THEN "upload" ELSE "publish"
    /\ UNCHANGED <<cloud, tpos, batchRecords, companiesProcessed, firstBatch, totalFacts,
                   terrors, dataset, published, tEmitted, tPrev, tWrites, tRuns>>
    /\ UNCHANGED notTr

\* filings: upload_data(table, DATASET_ID, mode="overwrite")
TUpload ==
    /\ tpc = "upload"
    /\ dataset' = [exists |-> TRUE, rows |-> batchRecords]
    /\ tWrites' = Append(tWrites, [mode |-> "overwrite", rows |-> batchRecords])
    /\ tpc' = "publish"
    /\ UNCHANGED <<cloud, tpos, batchRecords, companiesProcessed, firstBatch, totalFacts,
                   terrors, published, tEmitted, tPrev, tValidated, tRuns>>
    /\ UNCHANGED notTr

\* publish(DATASET_ID, METADATA)
TPublish ==
    /\ tpc = "publish"
    /\ published' = published + 1
    /\ tpc' = "done"
    /\ UNCHANGED <<cloud, tpos, batchRecords, companiesProcessed, firstBatch, totalFacts,
                   terrors, dataset, tEmitted, tPrev, tWrites, tValidated, tRuns>>
    /\ UNCHANGED notTr

\* run() returned or raised: the process ends and its locals are gone
TExit ==
    /\ tpc \in {"done", "failed"}
    /\ tpc' = "idle"
    /\ tPrev' = tEmitted
    /\ tRuns' = tRuns + 1
    /\ tpos' = 1
    /\ batchRecords' = <<>>
    /\ companiesProcessed' = 0
    /\ firstBatch' = TRUE
    /\ totalFacts' = 0
    /\ terrors' = 0
    /\ tEmitted' = <<>>
    /\ tWrites' = <<>>
    /\ tValidated' = "no"
    /\ UNCHANGED <<cloud, dataset, published>>
    /\ UNCHANGED notTr

InitTransform ==
    /\ stream \in Streams
    /\ tickerIndex \in SeqsUpTo(IndexEntries, MaxTransformLen)
    /\ rawStore \in RawStores(stream)
    /\ persisted = {}
    /\ ipc = "idle"
    /\ impl = "ingest"
    /\ completed = {}
    /\ pending = <<>>
    /\ ipos = 1
    /\ fetched = "ok"
    /\ ierrors = 0
    /\ inoData = 0
    /\ runStart = {}
    /\ fetchLog = <<>>
    /\ outcomeLog = <<>>
    /\ rawWrites = 0
    /\ stateWrites = 0
    /\ prevRun = "none"
    /\ prevFinal = {}
    /\ cloud \in BOOLEAN
    /\ TrIdle
    /\ FnUnused
    /\ WmUnused
    /\ MainUnused
    /\ RateUnused
    /\ SpUnused

NextTransform ==
    \/ TStart
    \/ TEntity
    \/ TEndLoop
    \/ \E contentOk \in BOOLEAN : TValidate(contentOk)
    \/ TUpload
    \/ TPublish
    \/ TExit

SpecTransform == InitTransform /\ [][NextTransform]_vars

----------------------------------------------------------------------------
\* Claims about how the facts ingest records a failed fetch.

\* the response had HTTP status 404 (resource not found)
NotFound(o) == o = "http_404"

RECURSIVE CountIn(_, _)
\* how many entries of the log are in the set
CountIn(log, S) ==
    IF log = <<>> THEN 0
    ELSE (IF Head(log) \in S THEN 1 ELSE 0) + CountIn(Tail(log), S)

\* the snapshot of the company whose fetch has just been recorded
RecordedSnapshot == rawStore[CikKey(Company.cik_str)]

FactsFailureRecorded ==
    /\ stream = "xbrl_facts"
    /\ ipc = "save_state"
    /\ fetched # "ok"

\* C11 (as claimed): in the facts ingest a failure other than "not found"
\* leaves the sentinel {error: str(e), cik}, and a "not found" failure leaves
\* {no_data: true, cik}; the two are never recorded with the same shape.
FailureSentinelsDistinct ==
    FactsFailureRecorded =>
        RecordedSnapshot =
            IF NotFound(fetched) THEN NoDataSentinel(CikKey(Company.cik_str))
            ELSE ErrorSentinel(StrE(fetched), CikKey(Company.cik_str))

\* C12 (as claimed): a failed fetch is counted (and recorded) as "no data"
\* exactly when its status is 404, whatever the text of the message.
NoDataIffStatus404 ==
    (stream = "xbrl_facts" /\ ipc = "save_state") =>
        /\ inoData = CountIn(outcomeLog, {o \in Outcomes : NotFound(o)})
        /\ ierrors = CountIn(outcomeLog, {o \in Outcomes : o # "ok" /\ ~NotFound(o)})

----------------------------------------------------------------------------
\* Claims about sentinels in the transforms.

TransformApplied == fnPc \in {"applied", "applied_companies", "applied_facts"}

\* C13 (as claimed): for every sentinel the ingest can have written, whatever
\* its message, each transform gives zero records for the entity and does not
\* count it as an error.
SentinelsGiveNoRecords ==
    (TransformApplied /\ IsSentinel(fnDoc)) =>
        /\ fnOut.records = <<>>
        /\ fnOut.status # "missing"

----------------------------------------------------------------------------
\* Claims about missing snapshots in the transform runs.

IndexKey(i) == CikKey(tickerIndex[i].cik_str)

\* the index entries whose snapshot is not in the Raw Store
MissingEntries == {i \in 1..Len(tickerIndex) : rawStore[IndexKey(i)] = Absent}

RECURSIVE RecordsOfPresent(_)
\* the records of the first n index entries, in index order, entries without
\* a snapshot contributing none
RecordsOfPresent(n) ==
    IF n = 0 THEN <<>>
    ELSE RecordsOfPresent(n - 1) \o
         (IF n \in MissingEntries THEN <<>>
          ELSE IF stream = "submissions"
               THEN TransformFilingsOfEntity(IndexKey(n), rawStore[IndexKey(n)]).records
               ELSE ExtractCompanyFacts(IndexKey(n), rawStore[IndexKey(n)]).records)

\* C14: a missing snapshot never stops the loop: the run gets to the end of
\* the index, has then emitted the records of every entry whose snapshot is
\* present, and its skip count (errors) is the number of index entries
\* without a snapshot.
MissingSnapshotsAreSkipped ==
    /\ tpc \in {"validate", "upload", "publish", "done", "failed"} =>
          tpos = Len(tickerIndex) + 1
    /\ tpc = "loop" =>
          /\ terrors = Cardinality({i \in MissingEntries : i < tpos})
          /\ tEmitted = RecordsOfPresent(tpos - 1)
    /\ tpc = "validate" =>
          /\ terrors = Cardinality(MissingEntries)
          /\ tEmitted = RecordsOfPresent(Len(tickerIndex))

\* an entry without a snapshot, then an entry with records, at the loop's end
MissingSnapshotsWitness ==
    /\ tpc = "validate"
    /\ Len(tickerIndex) >= 2
    /\ 1 \in MissingEntries
    /\ terrors >= 1
    /\ tEmitted # <<>>

----------------------------------------------------------------------------
\* Claims about the event date of the facts the two-phase transform emits.

\* C15 (as claimed): the facts flattening transform drops every fact without
\* a start/end/instant date or with an unparsable date string, so no emitted
\* record carries a missing or unparsable event date.
EmittedFactsHaveUsableDate ==
    fnPc = "applied_facts" =>
        \A k \in 1..Len(fnOut.records) :
            /\ fnOut.records[k].end_date # None
            /\ Strptime(fnOut.records[k].end_date).ok

----------------------------------------------------------------------------
\* Claims about the batched writes of the facts transform run.

RECURSIVE WrittenRows(_)
\* the records of the writes, one after the other
WrittenRows(writes) ==
    IF writes = <<>> THEN <<>> ELSE writes[1].rows \o WrittenRows(Tail(writes))

LoopOver == tpc \in {"validate", "upload", "publish", "done", "failed"}

\* C16: in a facts transform run the first write to the sink is an overwrite
\* and every later write of the run is an append.
FirstWriteOverwritesRestAppend ==
    stream = "xbrl_facts" =>
        \A i \in 1..Len(tWrites) :
            tWrites[i].mode = IF i = 1 THEN "overwrite" ELSE "append"

\* a facts run that has made two writes
TwoWritesWitness ==
    /\ stream = "xbrl_facts"
    /\ Len(tWrites) = 2
    /\ tWrites[1].mode = "overwrite"
    /\ tWrites[2].mode = "append"

\* C17: once the loop of a facts transform run is over and the final batch is
\* written, the records written across all batches are exactly the records
\* extracted for the index entries, each once, none left in the buffer.
AllExtractedFactsWritten ==
    (stream = "xbrl_facts" /\ LoopOver) =>
        /\ batchRecords = <<>>
        /\ WrittenRows(tWrites) = RecordsOfPresent(Len(tickerIndex))
        /\ totalFacts = Len(RecordsOfPresent(Len(tickerIndex)))
        /\ tWrites # <<>> => dataset.rows = RecordsOfPresent(Len(tickerIndex))

\* a completed facts run with a batch written in the loop and a final batch
AllWrittenWitness ==
    /\ stream = "xbrl_facts"
    /\ tpc = "done"
    /\ Len(tWrites) = 2
    /\ totalFacts >= 2

----------------------------------------------------------------------------
\* Claims about the order of validation, writes and publish in a run.

\* C18: publish is called only when the validation of this run has passed and
\* every record of the run has been written to the sink (the destination then
\* has at least the minimum number of rows); after a failed validation the
\* run calls publish no more.
PublishOnlyAfterValidation ==
    [][ /\ published' # published =>
              /\ tValidated = "passed"
              /\ batchRecords = <<>> \/ stream = "submissions"
              /\ WrittenRows(tWrites) = tEmitted
              /\ dataset.exists
              /\ Len(dataset.rows) >= MinRows
        /\ tValidated = "failed" => (published' = published /\ tpc' \in {"failed", "idle"})
      ]_vars

\* a run that has written, passed validation and published
PublishedWitness ==
    /\ tpc = "done"
    /\ tValidated = "passed"
    /\ published >= 1
    /\ tWrites # <<>>

\* C19 (as claimed): no record of a run is handed to the sink writer before
\* the validation of that run has passed, so a run whose validation fails has
\* written nothing.
ValidatedBeforeWritten ==
    tWrites # <<>> => tValidated = "passed"

----------------------------------------------------------------------------
\* The companies transform run: run() of transforms/company_tickers, which
\* reads the ticker index and the submissions snapshots.

\* min_rows of the companies validation (5000 in the source), scaled
MinCompanyRows == 1

RECURSIVE LastEntryOf(_, _, _)
\* ticker_map = {str(t["cik_str"]).zfill(10): t for t in tickers}: a later
\* entry of the same cik replaces an earlier one
LastEntryOf(tickers, cik, n) ==
    IF n = 0 THEN EmptyDict
    ELSE IF CikKey(tickers[n].cik_str) = cik THEN tickers[n]
    ELSE LastEntryOf(tickers, cik, n - 1)

TickerMapGet(tickers, cik) == LastEntryOf(tickers, cik, Len(tickers))

\* ciks = table.column("cik"); len(ciks) == len(set(ciks))
UniqueCiks(table) ==
    \A i, j \in 1..Len(table) : i # j => table[i].cik # table[j].cik

\* test(table): min_rows and the uniqueness assertion; the assertions on
\* known tickers and SIC codes can fail for any table
CompaniesTestPasses(contentOk, table) ==
    /\ contentOk
    /\ Len(table) >= MinCompanyRows
    /\ UniqueCiks(table)

CStart ==
    /\ tpc = "idle"
    /\ tRuns < MaxRuns
    /\ tpc' = "c_loop"
    /\ tpos' = 1
    /\ batchRecords' = <<>>
    /\ terrors' = 0
    /\ tEmitted' = <<>>
    /\ tWrites' = <<>>
    /\ tValidated' = "no"
    /\ UNCHANGED <<cloud, companiesProcessed, firstBatch, totalFacts, dataset, published,
                   tPrev, tRuns>>
    /\ UNCHANGED notTr

\* one iteration of  for ticker_entry in tickers
CEntity ==
    /\ tpc = "c_loop"
    /\ tpos <= Len(tickerIndex)
    /\ LET cik == CikKey(tickerIndex[tpos].cik_str)
           r == CompanyOfEntity(cik, rawStore[cik], TickerMapGet(tickerIndex, cik))
       IN
       /\ terrors' = IF r.status = "missing" THEN terrors + 1 ELSE terrors
       /\ batchRecords' = batchRecords \o r.records
       /\ tEmitted' = tEmitted \o r.records
    /\ tpos' = tpos + 1
    /\ UNCHANGED <<cloud, tpc, companiesProcessed, firstBatch, totalFacts, dataset,
                   published, tPrev, tWrites, tValidated, tRuns>>
    /\ UNCHANGED notTr

\* table = pa.Table.from_pylist(records, schema=SCHEMA)
CEndLoop ==
    /\ tpc = "c_loop"
    /\ tpos > Len(tickerIndex)
    /\ tpc' = "c_validate"
    /\ UNCHANGED <<cloud, tpos, batchRecords, companiesProcessed, firstBatch, totalFacts,
                   terrors, dataset, published, tEmitted, tPrev, tWrites, tValidated, tRuns>>
    /\ UNCHANGED notTr

\* test(table)
CValidate(contentOk) ==
    /\ tpc = "c_validate"
    /\ tValidated' = IF CompaniesTestPasses(contentOk, batchRecords) THEN "passed" ELSE "failed"
    /\ tpc' = IF CompaniesTestPasses(contentOk, batchRecords) THEN "upload" ELSE "failed"
    /\ UNCHANGED <<cloud, tpos, batchRecords, companiesProcessed, firstBatch, totalFacts,
                   terrors, dataset, published, tEmitted, tPrev, tWrites, tRuns>>
    /\ UNCHANGED notTr

InitCompanies ==
    /\ InitTransform
    /\ stream = "submissions"

\* upload_data(table, DATASET_ID, mode="overwrite"), publish and the end of
\* the process are those of the filings run
NextCompanies ==
    \/ CStart
    \/ CEntity
    \/ CEndLoop
    \/ \E contentOk \in BOOLEAN : CValidate(contentOk)
    \/ TUpload
    \/ TPublish
    \/ TExit

SpecCompanies == InitCompanies /\ [][NextCompanies]_vars

\* C20 (as claimed): the table the companies transform builds has at most one
\* row per CIK, also when several entries of the ticker index share a CIK.
CompaniesTableUniqueByCik ==
    tpc \in {"c_validate", "upload", "publish", "done", "failed"} =>
        UniqueCiks(batchRecords)

----------------------------------------------------------------------------
\* Claims about the transform output as a function of its inputs.

----------------------------------------------------------------------------
\* The orchestrator: main() of src/src/main.py, which runs the ticker index
\* ingest, the two per-entity ingests and the three transforms in sequence.

Modes == {"all", "ingest_only", "transform_only"}

\* should_ingest = not args.transform_only
ShouldIngest(args) == args # "transform_only"
\* should_transform = not args.ingest_only
ShouldTransform(args) == args # "ingest_only"

\* where main() goes once the requested ingests are over
AfterIngest(args) == IF ShouldTransform(args) THEN "transform_companies" ELSE "done"

\* the ticker index ingest with its exception swallowed
AfterTickersSwallowed(ok) == "ingest_submissions"

\* ingest_tickers.run(): response.raise_for_status() raises on a failed fetch,
\* nothing in run() or main() catches it, so main() ends there
AfterTickers(ok) == IF ok THEN "ingest_submissions" ELSE "aborted"

\* the statement that follows a transform: a transform that raises ends main()
AfterTransform(name, ok) ==
    IF ~ok THEN "aborted"
    ELSE IF name = "transform_companies" THEN "transform_filings"
    ELSE IF name = "transform_filings" THEN "transform_xbrl"
    ELSE "done"

MStart ==
    /\ mpc = "start"
    /\ mpc' = IF ShouldIngest(margs) THEN "ingest_tickers" ELSE AfterIngest(margs)
    /\ UNCHANGED <<margs, mpos, mlog, tickerIndex>>
    /\ UNCHANGED notMain

\* ingest_tickers.run(): one fetch of the index file, saved as raw
\* "company_tickers" when it succeeds
MIngestTickers(ok, companies) ==
    /\ mpc = "ingest_tickers"
    /\ tickerIndex' = IF ok THEN companies ELSE tickerIndex
    /\ mlog' = Append(mlog, [ev |-> IF ok THEN "tickers_saved" ELSE "tickers_failed"])
    /\ mpc' = AfterTickers(ok)
    /\ mpos' = 1
    /\ UNCHANGED margs
    /\ UNCHANGED notMain

IngestOf(pc) == IF pc = "ingest_submissions" THEN "submissions" ELSE "xbrl_facts"

\* one company of the ticker index in ingest_submissions.run() or
\* ingest_xbrl.run(): fetched when it is pending, whatever the fetch returns
\* (the loop catches the exception of a failed fetch)
MIngestEntity(isPending) ==
    /\ mpc \in {"ingest_submissions", "ingest_xbrl"}
    /\ mpos <= Len(tickerIndex)
    /\ mlog' = IF isPending
               THEN Append(mlog, [ev |-> "fetch", stream |-> IngestOf(mpc),
                                  cik |-> CikKey(tickerIndex[mpos].cik_str)])
               ELSE mlog
    /\ mpos' = mpos + 1
    /\ UNCHANGED <<margs, mpc, tickerIndex>>
    /\ UNCHANGED notMain

\* the per-entity ingest returns
MIngestReturn ==
    /\ mpc \in {"ingest_submissions", "ingest_xbrl"}
    /\ mpos > Len(tickerIndex)
    /\ mlog' = Append(mlog, [ev |-> "ingest_returned", stream |-> IngestOf(mpc)])
    /\ mpc' = IF mpc = "ingest_submissions" THEN "ingest_xbrl" ELSE AfterIngest(margs)
    /\ mpos' = 1
    /\ UNCHANGED <<margs, tickerIndex>>
    /\ UNCHANGED notMain

\* transform_companies(), transform_filings(), transform_xbrl()
MTransform(ok) ==
    /\ mpc \in {"transform_companies", "transform_filings", "transform_xbrl"}
    /\ mlog' = Append(mlog, [ev |-> "transform", name |-> mpc])
    /\ mpc' = AfterTransform(mpc, ok)
    /\ UNCHANGED <<margs, mpos, tickerIndex>>
    /\ UNCHANGED notMain

InitMain ==
    /\ margs \in Modes
    /\ mpc = "start"
    /\ mpos = 1
    /\ mlog = <<>>
    /\ RateUnused
    /\ SpUnused
    /\ stream = "submissions"
    /\ tickerIndex \in SeqsUpTo(IndexEntries, MaxIndexLen)
    /\ IngestIdle
    /\ FnUnused
    /\ WmUnused
    /\ TrUnused

NextMain ==
    \/ MStart
    \/ \E ok \in BOOLEAN, companies \in SeqsUpTo(IndexEntries, MaxIndexLen) :
          MIngestTickers(ok, companies)
    \/ \E isPending \in BOOLEAN : MIngestEntity(isPending)
    \/ MIngestReturn
    \/ \E ok \in BOOLEAN : MTransform(ok)

SpecMain == InitMain /\ [][NextMain]_vars

EventsAt(ev) == {i \in 1..Len(mlog) : mlog[i].ev = ev}

\* C22: in a run of main() every per-entity fetch comes after the ticker
\* index was fetched and saved; a transform starts only after both per-entity
\* ingests have returned (when the run ingests at all) and no fetch follows
\* it; and a run whose ticker index fetch failed fetches no entity and runs
\* no transform.
TickersThenIngestThenTransform ==
    /\ \A i \in EventsAt("fetch") : \E j \in EventsAt("tickers_saved") : j < i
    /\ \A i \in EventsAt("transform") :
          /\ \A j \in EventsAt("fetch") : j < i
          /\ ShouldIngest(margs) =>
                \A st \in Streams :
                   \E j \in EventsAt("ingest_returned") : j < i /\ mlog[j].stream = st
    /\ \A i \in EventsAt("fetch") :
          mlog[i].stream = "xbrl_facts" =>
             \E j \in EventsAt("ingest_returned") : j < i /\ mlog[j].stream = "submissions"
    /\ EventsAt("tickers_failed") # {} =>
          /\ EventsAt("fetch") = {}
          /\ EventsAt("transform") = {}
          /\ mpc = "aborted"

\* a full run: index saved, entities of both streams fetched, all three
\* transforms run
FullRunWitness ==
    /\ mpc = "done"
    /\ margs = "all"
    /\ \E i \in EventsAt("fetch") : mlog[i].stream = "submissions"
    /\ \E i \in EventsAt("fetch") : mlog[i].stream = "xbrl_facts"
    /\ Cardinality(EventsAt("transform")) = 3

----------------------------------------------------------------------------
\* Claims about the fetches of one per-entity ingest run.

\* C23 (as claimed): within one ingest run no entity (CIK) is fetched twice,
\* whatever its first fetch returned, also when several entries of the ticker
\* index share a cik_str.
EachEntityFetchedAtMostOnce ==
    \A i, j \in 1..Len(fetchLog) : i # j => fetchLog[i] # fetchLog[j]


\* the entities whose snapshot this run has written so far
WrittenThisRun == {fetchLog[i] : i \in 1..rawWrites}

\* C24: the persisted Completion Set only grows, and it is saved after each
\* entity's snapshot and before the next fetch: whenever the next fetch can be
\* issued every snapshot written in this run has its identifier persisted, and
\* at every point (so wherever the process is terminated) at most one entity
\* has a snapshot written in this run without its identifier in the persisted
\* Completion Set.
CompletionSetSavedPerEntity ==
    /\ [](/\ Cardinality(WrittenThisRun \ persisted) <= 1
          /\ rawWrites - stateWrites \in {0, 1}
          /\ ipc = "fetch" =>
                /\ WrittenThisRun \subseteq persisted
                /\ stateWrites = rawWrites)
    /\ [][persisted \subseteq persisted']_vars

\* the second entity of a run: its snapshot is written, its identifier is
\* not saved yet, the first entity's is
InFlightEntityWitness ==
    /\ ipc = "save_state"
    /\ rawWrites = 2
    /\ stateWrites = 1
    /\ Cardinality(WrittenThisRun \ persisted) = 1
    /\ Cardinality(persisted) = 1

----------------------------------------------------------------------------
\* Claims about the watermark process_xbrl_facts records for an entity.

\* the latest filed date among the records
MaxFiled(records) ==
    (CHOOSE r \in Range(records) : \A q \in Range(records) : DtLe(q.filed, r.filed)).filed

\* C25 (as claimed): after an entity was processed its recorded watermark is
\* the latest event date among the records emitted for it in this run when
\* there is one, and the previous watermark otherwise: a candidate that was
\* filtered or dropped never advances it.
WatermarkIsMaxOfEmitted ==
    (fnPc = "applied" /\ fnOut.status = "ok") =>
        IF fnOut.records # <<>>
        THEN fnOut.entry = Isoformat(MaxFiled(fnOut.records))
        ELSE Fromisoformat(fnOut.entry) = LastUpdateDt(fnLast)

----------------------------------------------------------------------------
\* Claims about the positional arrays of the filings transform.

MinOf3(a, b, c) ==
    IF a <= b /\ a <= c THEN a ELSE IF b <= c THEN b ELSE c

\* C26: for a submissions snapshot the filings transform emits one record for
\* each position below the length of the shortest of form, filingDate and
\* accessionNumber (a missing array counting as empty) and none beyond, each
\* with the form, date and accession number of its position; the optional
\* arrays never lower that count, a position they do not reach gets null
\* (false for the two flags); and the transform does not fail.
OneRecordPerCompletePosition ==
    (fnPc = "applied" /\ fnDoc.kind = "payload") =>
        LET recent == fnDoc.filings.recent
            forms == Get(recent, "form", <<>>)
            dates == Get(recent, "filingDate", <<>>)
            accs == Get(recent, "accessionNumber", <<>>)
            n == MinOf3(Len(forms), Len(dates), Len(accs))
        IN
        /\ fnOut.status \in {"ok", "skipped"}
        /\ Len(fnOut.records) = n
        /\ \A i \in 1..n :
              /\ fnOut.records[i].form_type = forms[i]
              /\ fnOut.records[i].filing_date = dates[i]
              /\ fnOut.records[i].accession_number = accs[i]
              /\ i > Len(Get(recent, "fileNumber", <<>>)) =>
                    fnOut.records[i].file_number = None
              /\ i > Len(Get(recent, "reportDate", <<>>)) =>
                    fnOut.records[i].report_date = None
              /\ i > Len(Get(recent, "isXBRL", <<>>)) =>
                    fnOut.records[i].is_xbrl = FALSE
              /\ i > Len(Get(recent, "isInlineXBRL", <<>>)) =>
                    fnOut.records[i].is_inline_xbrl = FALSE
              /\ i > Len(Get(recent, "primaryDocument", <<>>)) =>
                    fnOut.records[i].primary_document = None

\* two complete positions, the optional arrays reaching only the first
ShortOptionalArraysWitness ==
    /\ fnPc = "applied"
    /\ fnDoc.kind = "payload"
    /\ Len(fnOut.records) = 2
    /\ "fileNumber" \in DOMAIN fnDoc.filings.recent
    /\ Len(fnDoc.filings.recent.fileNumber) = 1
    /\ fnOut.records[1].file_number # None
    /\ fnOut.records[2].file_number = None
    /\ fnOut.records[2].is_xbrl = FALSE

----------------------------------------------------------------------------
\* Claims about malformed records inside an entity's document.

\* C28 (as claimed): a malformed record in one entity's document (such as an
\* unparsable filingDate) never aborts the run: no run ends in an exception
\* raised while an entity is flattened with entities after it left unprocessed.
MalformedRecordNeverAborts ==
    ~(wpc = "crashed" /\ wpos < Len(tickersData))

----------------------------------------------------------------------------
\* The facts run over documents of other taxonomies and units.

\* a companyfacts document whose n facts are all in the given taxonomy and unit
FactsSnapshotIn(taxonomy, unit, n) ==
    FactsDoc([j \in 1..n |->
                [taxonomy |-> taxonomy, concept |-> "Assets", unit |-> unit,
                 fact |-> FactAt(j, [filed |-> "2023-02-01"], [end |-> "2023-01-01"])]])

\* companies that report under IFRS in euros, next to US-GAAP/USD filers
MixedFactsStores ==
    [RawKeys -> {Absent, FactsSnapshotIn("us-gaap", "USD", 1),
                 FactsSnapshotIn("ifrs-full", "EUR", MaxRunItems)}]

InitFactsRun ==
    /\ stream = "xbrl_facts"
    /\ tickerIndex \in SeqsUpTo(IndexEntries, MaxTransformLen)
    /\ rawStore \in MixedFactsStores
    /\ persisted = {}
    /\ ipc = "idle"
    /\ impl = "ingest"
    /\ completed = {}
    /\ pending = <<>>
    /\ ipos = 1
    /\ fetched = "ok"
    /\ ierrors = 0
    /\ inoData = 0
    /\ runStart = {}
    /\ fetchLog = <<>>
    /\ outcomeLog = <<>>
    /\ rawWrites = 0
    /\ stateWrites = 0
    /\ prevRun = "none"
    /\ prevFinal = {}
    /\ cloud \in BOOLEAN
    /\ TrIdle
    /\ FnUnused
    /\ WmUnused
    /\ MainUnused
    /\ RateUnused
    /\ SpUnused

\* run() of transforms/xbrl_company_facts: it has no upload_data step
NextFactsRun ==
    \/ TStart
    \/ TEntity
    \/ TEndLoop
    \/ \E contentOk \in BOOLEAN : TValidate(contentOk)
    \/ TPublish
    \/ TExit

SpecFactsRun == InitFactsRun /\ [][NextFactsRun]_vars

\* the assertions of test() on taxonomy and unit
HasRequiredValues(rows) ==
    /\ \E i \in 1..Len(rows) : rows[i].taxonomy \in {"us-gaap", "dei"}
    /\ \E i \in 1..Len(rows) : rows[i].unit = "USD"

\* C29 (as claimed): the facts dataset is published only when its output has
\* a row of taxonomy us-gaap or dei and a row of unit USD, whatever its row
\* count.
FactsPublishedOnlyWithRequiredValues ==
    [][published' > published => HasRequiredValues(dataset.rows)]_vars

----------------------------------------------------------------------------
\* process_xbrl_facts applied to one fact, over the months of the year.

PeriodEndStrs ==
    {"2023-01-01", "2023-02-01", "2023-03-31", "2023-04-01", "2023-06-30", "2023-07-01",
     "2023-09-30", "2023-10-01", "2023-12-31", "2024-11-30"}

FiledStrs == {"2023-02-01", "2023-12-31", "2024-11-30"}

\* the three shapes of a period: end only, instant, start and end
PeriodShapes ==
    {[end |-> d] : d \in PeriodEndStrs}
    \cup {[instant |-> d] : d \in PeriodEndStrs}
    \cup {[start |-> "2023-01-01", end |-> d] : d \in PeriodEndStrs}

OneFactDocs ==
    {FactsDoc(<<FactEntry(FactAt(1, [filed |-> f], p))>>) : f \in FiledStrs, p \in PeriodShapes}

InitFactDates ==
    /\ fnDoc \in OneFactDocs
    /\ fnLast \in {None, "2023-01-15T00:00:00"}
    /\ fnOut = [status |-> "unused"]
    /\ fnPc = "input"
    /\ IngestUnused
    /\ WmUnused
    /\ MainUnused
    /\ RateUnused
    /\ SpUnused
    /\ TrUnused

SpecFactDates == InitFactDates /\ [][NextFactsFn]_vars

\* the date string of the fact that the record's end_date comes from
PeriodEndStr(fact) == IF "end" \in DOMAIN fact THEN fact["end"] ELSE fact["instant"]

\* the calendar quarter of a month, by its three months
QuarterOfMonth(month) ==
    CHOOSE q \in 1..4 : month \in {3 * q - 2, 3 * q - 1, 3 * q}

\* C30: in every record process_xbrl_facts emits, fact_year, fact_quarter and
\* fact_month are those of the fact's end date (its instant when that is the
\* period), not of filed: the year of the end date, '<year>-Q<q>' with q the
\* calendar quarter of its month, in 1..4, and '<year>-<MM>' with the month in
\* two digits; end 2023-01-01 filed 2023-02-01 gives 2023-Q1.
FactLabelsFromEndDate ==
    (fnPc = "applied" /\ fnOut.status = "ok") =>
        \A i \in 1..Len(fnOut.records) :
            LET r == fnOut.records[i]
                fact == fnDoc.facts[1].fact
                d == Strptime(PeriodEndStr(fact)).dt
            IN
            /\ r.end_date = d
            /\ r.fact_year = d[1]
            /\ r.fact_quarter = <<d[1], "Q", QuarterOfMonth(d[2])>>
            /\ r.fact_quarter[3] \in 1..4
            /\ r.fact_month = <<d[1], <<d[2] \div 10, d[2] % 10>>>>
            /\ (PeriodEndStr(fact) = "2023-01-01" /\ fact["filed"] = "2023-02-01") =>
                  r.fact_quarter = <<2023, "Q", 1>>

\* a fact of the third quarter filed in the fourth quarter of the next year
FactLabelsWitness ==
    /\ fnPc = "applied"
    /\ Len(fnOut.records) = 1
    /\ fnOut.records[1].filed = <<2024, 11, 30>>
    /\ fnOut.records[1].end_date = <<2023, 9, 30>>
    /\ fnOut.records[1].fact_quarter = <<2023, "Q", 3>>
    /\ fnOut.records[1].fact_month = <<2023, <<0, 9>>>>

----------------------------------------------------------------------------
\* Claims about the batches of the facts transform.

\* C27 (as claimed): in the facts run, whenever the count of processed index
\* entities, those skipped for a missing snapshot included, is a multiple of
\* BATCH_SIZE, the buffer has been written and cleared, so that it never holds
\* the records of more than BATCH_SIZE consecutive index entities.
BufferFlushedEveryBatch ==
    (stream = "xbrl_facts" /\ tpc = "loop") =>
        (companiesProcessed % BatchSize = 0 => batchRecords = <<>>)

----------------------------------------------------------------------------
\* One phase of main(): --ingest-only runs a per-entity ingest over an empty
\* Raw Store, --transform-only a transform over the snapshots it finds.

InitOnePhase ==
    /\ margs \in {"ingest_only", "transform_only"}
    /\ mpc = "unused"
    /\ mpos = 1
    /\ mlog = <<>>
    /\ RateUnused
    /\ SpUnused
    /\ FnUnused
    /\ WmUnused
    /\ stream \in Streams
    /\ persisted = {}
    /\ ipc = "idle"
    /\ impl = "ingest"
    /\ completed = {}
    /\ pending = <<>>
    /\ ipos = 1
    /\ fetched = "ok"
    /\ ierrors = 0
    /\ inoData = 0
    /\ runStart = {}
    /\ fetchLog = <<>>
    /\ outcomeLog = <<>>
    /\ rawWrites = 0
    /\ stateWrites = 0
    /\ prevRun = "none"
    /\ prevFinal = {}
    /\ TrIdle
    /\ IF ShouldIngest(margs)
       THEN /\ tickerIndex \in SeqsUpTo(IndexEntries, MaxIndexLen)
            /\ rawStore = [k \in RawKeys |-> Absent]
            /\ cloud = FALSE
       ELSE /\ tickerIndex \in SeqsUpTo(IndexEntries, MaxTransformLen)
            /\ rawStore \in RawStores(stream)
            /\ cloud \in BOOLEAN

\* the steps of the phase the command line asks for; the transform is
\* followed for one run
NextOnePhase ==
    \/ ShouldIngest(margs) /\ \E im \in Impls : IngestStart(im)
    \/ ShouldIngest(margs) /\ \E o \in Outcomes : IngestFetch(o)
    \/ ShouldIngest(margs) /\ IngestSaveRaw
    \/ ShouldIngest(margs) /\ IngestSaveState
    \/ ShouldIngest(margs) /\ IngestReturn
    \/ ShouldIngest(margs) /\ Terminate
    \/ ShouldTransform(margs) /\ TStart
    \/ ShouldTransform(margs) /\ TEntity
    \/ ShouldTransform(margs) /\ TEndLoop
    \/ ShouldTransform(margs) /\ \E contentOk \in BOOLEAN : TValidate(contentOk)
    \/ ShouldTransform(margs) /\ TUpload
    \/ ShouldTransform(margs) /\ TPublish

SpecOnePhase == InitOnePhase /\ [][NextOnePhase]_vars

RECURSIVE IndexOrderWithout(_, _)
\* the cik_str of the first n index entries, in index order, those in the
\* set done left out
IndexOrderWithout(n, done) ==
    IF n = 0 THEN <<>>
    ELSE IndexOrderWithout(n - 1, done) \o
         (IF tickerIndex[n].cik_str \in done THEN <<>> ELSE <<tickerIndex[n].cik_str>>)

\* C31: the fetches of an ingest run are issued one at a time (each is
\* followed by its two saves before the next) and their sequence is, at every
\* moment, a prefix of the ticker index in index order without the entities of
\* the Completion Set loaded at the start, and all of it when the run ends; a
\* transform step emits the records of the one index entry at the loop
\* position, after everything emitted before, and moves to the next entry.
SequentialInIndexOrder ==
    /\ [](LET all == IndexOrderWithout(Len(tickerIndex), runStart) IN
          /\ Len(fetchLog) <= Len(all)
          /\ fetchLog = SubSeq(all, 1, Len(fetchLog))
          /\ ipc = "done" => fetchLog = all
          /\ Len(fetchLog) - stateWrites \in {0, 1}
          /\ ipc = "fetch" => stateWrites = Len(fetchLog))
    /\ [][Len(tEmitted') > Len(tEmitted) =>
            /\ tpc = "loop"
            /\ tpos' = tpos + 1
            /\ SubSeq(tEmitted', 1, Len(tEmitted)) = tEmitted
            /\ \A i \in (Len(tEmitted) + 1)..Len(tEmitted') :
                  tEmitted'[i].cik = IndexKey(tpos)]_vars

\* an ingest run that skipped nothing and fetched two entities in index
\* order
FetchedInOrderWitness ==
    /\ ipc = "done"
    /\ Len(fetchLog) = 2
    /\ fetchLog[1] # fetchLog[2]
    /\ fetchLog[1] = tickerIndex[1].cik_str
    /\ fetchLog[2] = tickerIndex[2].cik_str

----------------------------------------------------------------------------
\* The rate limiters: @sleep_and_retry @limits(calls=10, period=1) on
\* rate_limited_get (two-phase pipeline) and on each fetch function of the
\* assets modules (single-phase pipeline).

\* calls = 10, scaled
RateCalls == 2
\* period = 1 second, in ticks of the clock
RatePeriod == 2
\* the clock is followed up to this tick, the program up to this many requests
MaxTime == 5
MaxRequests == 4

Pipelines == {"single_phase", "two_phase"}

\* the call sites of a pipeline in program order; the first is the one fetch
\* of the ticker index, the others are loops over the entities
CallSites(pl) ==
    IF pl = "single_phase"
    THEN <<"fetch_company_tickers", "fetch_company_metadata",
           "fetch_company_submissions", "fetch_company_facts">>
    ELSE <<"ingest_tickers", "ingest_submissions", "ingest_xbrl">>

\* the decorated function a call site goes through: each @limits(...) makes
\* a limiter of its own for the function it decorates
LimiterOf(pl, site) == IF pl = "two_phase" THEN "rate_limited_get" ELSE site

Limiters(pl) == {LimiterOf(pl, CallSites(pl)[i]) : i \in 1..Len(CallSites(pl))}

\* the limiter after the attempt of a call at time now: the window is reset
\* when the period has elapsed, then the attempt is counted
Attempt(lim, now) ==
    IF RatePeriod - (now - lim.last_reset) <= 0
    THEN [last_reset |-> now, num_calls |-> 1]
    ELSE [last_reset |-> lim.last_reset, num_calls |-> lim.num_calls + 1]

\* time passes: a response is awaited, a document is processed
RTick ==
    /\ rnow < MaxTime
    /\ rnow' = rnow + 1
    /\ UNCHANGED <<rpipeline, rlim, rsite, rlog>>
    /\ UNCHANGED notRate

\* one call of a fetch function: past the ceiling the limiter raises
\* RateLimitException, sleep_and_retry sleeps for the rest of the period and
\* calls again
RCall ==
    /\ Len(rlog) < MaxRequests
    /\ LET site == CallSites(rpipeline)[rsite]
           f == LimiterOf(rpipeline, site)
           first == Attempt(rlim[f], rnow)
           wake == rlim[f].last_reset + RatePeriod
           issued == IF first.num_calls > RateCalls THEN wake ELSE rnow
           lim == IF first.num_calls > RateCalls THEN Attempt(first, wake) ELSE first
       IN
       /\ issued <= MaxTime
       /\ rnow' = issued
       /\ rlim' = [rlim EXCEPT ![f] = lim]
       /\ rlog' = Append(rlog, [site |-> site, t |-> issued, window |-> lim.last_reset])
       /\ rsite' = IF rsite = 1 THEN 2 ELSE rsite
    /\ UNCHANGED rpipeline
    /\ UNCHANGED notRate

\* a loop over the entities is over, the next function starts
RNextSite ==
    /\ rsite > 1
    /\ rsite < Len(CallSites(rpipeline))
    /\ rsite' = rsite + 1
    /\ UNCHANGED <<rpipeline, rnow, rlim, rlog>>
    /\ UNCHANGED notRate

\* the modules are imported: every limiter starts its first window
InitRate ==
    /\ rpipeline \in Pipelines
    /\ rnow = 0
    /\ rlim = [f \in Limiters(rpipeline) |-> [last_reset |-> 0, num_calls |-> 0]]
    /\ rsite = 1
    /\ rlog = <<>>
    /\ IngestUnused
    /\ FnUnused
    /\ WmUnused
    /\ MainUnused
    /\ SpUnused
    /\ TrUnused

NextRate == RTick \/ RCall \/ RNextSite

SpecRate == InitRate /\ [][NextRate]_vars

\* the requests of all call sites issued in the period that starts at w
RequestsInPeriod(w) ==
    {j \in 1..Len(rlog) : w <= rlog[j].t /\ rlog[j].t < w + RatePeriod}

\* C32 (as claimed): the ceiling is one budget for all call sites: in the
\* rate-limit period of any request, the requests of all fetch functions
\* together number at most the ceiling.
SharedCeilingHolds ==
    \A i \in 1..Len(rlog) : Cardinality(RequestsInPeriod(rlog[i].window)) <= RateCalls


----------------------------------------------------------------------------
\* Claims about what a stored payload snapshot can be replaced with.

\* C33 (as claimed): once the Raw Store holds a payload snapshot for an
\* entity, no step of the same run or of a later ingest run replaces it with
\* an error or no-data sentinel (the persisted Completion Set is never
\* cleared here), also when several index entries share a cik_str.
PayloadNeverReplacedBySentinel ==
    [][\A k \in RawKeys : rawStore[k] = Body => ~IsSentinel(rawStore'[k])]_vars


----------------------------------------------------------------------------
\* Successive facts transform runs with the ticker index refreshed in between.

\* run() of the tickers ingest between two transform runs:
\* save_raw_json(companies, "company_tickers") replaces the index
TickersRefreshed(companies) ==
    /\ tpc = "idle"
    /\ tRuns >= 1
    /\ tRuns < MaxRuns
    /\ companies # tickerIndex
    /\ tickerIndex' = companies
    /\ UNCHANGED <<stream, rawStore, persisted, ipc, impl, completed, pending, ipos,
                   fetched, ierrors, inoData>>
    /\ UNCHANGED <<ingestHist, fnVars, wmVars, trVars, mainVars, rateVars, spVars>>

InitFactsReruns ==
    /\ stream = "xbrl_facts"
    /\ tickerIndex \in SeqsUpTo(IndexEntries, MaxTransformLen)
    /\ rawStore \in [RawKeys -> {Absent, RunFactsSnapshot(MaxRunItems)}]
    /\ persisted = {}
    /\ ipc = "idle"
    /\ impl = "ingest"
    /\ completed = {}
    /\ pending = <<>>
    /\ ipos = 1
    /\ fetched = "ok"
    /\ ierrors = 0
    /\ inoData = 0
    /\ runStart = {}
    /\ fetchLog = <<>>
    /\ outcomeLog = <<>>
    /\ rawWrites = 0
    /\ stateWrites = 0
    /\ prevRun = "none"
    /\ prevFinal = {}
    /\ cloud \in BOOLEAN
    /\ TrIdle
    /\ FnUnused
    /\ WmUnused
    /\ MainUnused
    /\ RateUnused
    /\ SpUnused

NextFactsReruns ==
    \/ TStart
    \/ TEntity
    \/ TEndLoop
    \/ \E contentOk \in BOOLEAN : TValidate(contentOk)
    \/ TPublish
    \/ TExit
    \/ \E companies \in SeqsUpTo(IndexEntries, MaxTransformLen) : TickersRefreshed(companies)

SpecFactsReruns == InitFactsReruns /\ [][NextFactsReruns]_vars

\* C34 (as claimed): when a facts transform run has completed and published,
\* the destination dataset holds exactly the records this run emitted; with
\* zero records emitted nothing of an earlier run is retained, counted by the
\* row-count validation and published.
PublishedHoldsExactlyThisRun ==
    (stream = "xbrl_facts" /\ tpc = "done") =>
        dataset = [exists |-> TRUE, rows |-> tEmitted]

\* C35 (as claimed): a facts transform run that fails before validation
\* passes leaves the dataset the previous run published at the destination
\* as it was, in local mode as well as in cloud mode.
FailedRunKeepsPublished ==
    (stream = "xbrl_facts" /\ tRuns = 1 /\ published = 1 /\ tpc = "failed") =>
        dataset = [exists |-> TRUE, rows |-> tPrev]


----------------------------------------------------------------------------
\* The single-phase pipeline over successive runs: main() of src/main.py with
\* process_tickers and process_filings, against a remote service whose filing
\* lists grow between runs.

\* filings the submissions endpoint lists per entity
MaxRemote == 2

RemoteDateStrs == {"2023-01-15", "2023-02-01"}

\* the n-th filing an entity has made
RemoteFiling(n, date) ==
    [form |-> FormName(n), filingDate |-> date, accessionNumber |-> AccName(n)]

\* the document fetch_company_submissions returns for a list of filings
RemoteDoc(list) ==
    SubmissionDoc([form |-> [i \in 1..Len(list) |-> list[i].form],
                   filingDate |-> [i \in 1..Len(list) |-> list[i].filingDate],
                   accessionNumber |-> [i \in 1..Len(list) |-> list[i].accessionNumber]])

\* the record process_filings builds for a listed filing
RecordOfRemote(cik, f) ==
    FilingRecord(cik, <<f.form>>, <<f.accessionNumber>>, 1, Strptime(f.filingDate).dt)

\* current_tickers[cik] = {"ticker": ..., "title": ...}: a later entry of the
\* index with the same cik replaces an earlier one
CurrentTickers(index) ==
    [k \in {CikKey(index[i].cik_str) : i \in 1..Len(index)} |->
        LET last == CHOOSE i \in 1..Len(index) :
                        /\ CikKey(index[i].cik_str) = k
                        /\ \A j \in (i + 1)..Len(index) : CikKey(index[j].cik_str) # k
        IN [ticker |-> index[last].ticker, title |-> index[last].title]]

\* base_tickers = {k: {"ticker": v["ticker"], "title": v["title"]} ... if "ticker" in v}
BaseTickers(previous) ==
    [k \in {c \in DOMAIN previous : "ticker" \in DOMAIN previous[c]} |->
        [ticker |-> previous[k].ticker, title |-> previous[k].title]]

\* current_tickers == base_tickers and len(previous_tickers) > 0
NoChanges(index, previous) ==
    /\ CurrentTickers(index) = BaseTickers(previous)
    /\ Cardinality(DOMAIN previous) > 0

RECURSIVE DictKeys(_, _, _)
\* the keys of current_tickers in insertion order
DictKeys(index, i, keys) ==
    IF i > Len(index) THEN keys
    ELSE DictKeys(index, i + 1,
                  IF CikKey(index[i].cik_str) \in Range(keys) THEN keys
                  ELSE Append(keys, CikKey(index[i].cik_str)))

\* the rows of the table process_tickers returns
ProcessTickersRows(index, previous) ==
    IF NoChanges(index, previous) THEN <<>> ELSE DictKeys(index, 1, <<>>)

\* main(): tickers_data = process_tickers(), which saves its state when it
\* found changes; then process_filings(tickers_data) starts
SpStart ==
    /\ wpc = "idle"
    /\ LET same == NoChanges(tickerIndex, previousTickers)
           rows == ProcessTickersRows(tickerIndex, previousTickers)
       IN /\ tickersBranch' = IF same THEN "unchanged" ELSE "changed"
          /\ previousTickers' = IF same THEN previousTickers ELSE CurrentTickers(tickerIndex)
          /\ tickersData' = rows
          /\ wpc' = IF rows = <<>> THEN "returned_empty" ELSE "loop"
    /\ wpos' = 1
    /\ lastUpdates' = wmState
    /\ newLastUpdates' = [k \in RawKeys |-> None]
    /\ allRecords' = <<>>
    /\ wmBefore' = wmState
    /\ UNCHANGED <<asset, wmState, sink, unsent, remoteFilings>>
    /\ UNCHANGED <<ingestVars, ingestHist, fnVars, trVars, mainVars, rateVars>>

\* one row of tickers_data: the fetch succeeds and returns what the service lists
SpEntity ==
    /\ wpc = "loop"
    /\ LET cik == tickersData[wpos]
           r == OfEntity(asset, cik, RemoteDoc(remoteFilings[cik]), lastUpdates[cik])
       IN IF r.status = "raised"
            THEN /\ wpc' = "crashed"
                 /\ UNCHANGED <<wpos, newLastUpdates, allRecords>>
            ELSE /\ allRecords' = allRecords \o r.records
                 /\ newLastUpdates' =
                        IF r.status = "skipped" THEN newLastUpdates
                        ELSE [newLastUpdates EXCEPT ![cik] = r.entry]
                 /\ IF wpos < Len(tickersData)
                      THEN wpos' = wpos + 1 /\ wpc' = "loop"
                      ELSE wpos' = wpos /\ wpc' = "save_state"
    /\ UNCHANGED <<asset, wmState, sink, tickersData, lastUpdates, wmBefore, unsent>>
    /\ UNCHANGED notWm

\* between two runs an entity makes a filing: the service lists it first; its
\* filingDate is not earlier than that of any filing already listed
RemoteGrows(cik, date) ==
    /\ wpc = "idle"
    /\ Len(remoteFilings[cik]) < MaxRemote
    /\ \A i \in 1..Len(remoteFilings[cik]) :
          DtLe(Strptime(remoteFilings[cik][i].filingDate).dt, Strptime(date).dt)
    /\ remoteFilings' = [remoteFilings EXCEPT ![cik] =
                            <<RemoteFiling(Len(@) + 1, date)>> \o @]
    /\ UNCHANGED <<previousTickers, tickersBranch>>
    /\ UNCHANGED <<ingestVars, ingestHist, fnVars, wmVars, trVars, mainVars, rateVars>>

InitSinglePhase ==
    /\ asset = "filings"
    /\ WmIdle
    /\ stream = "submissions"
    /\ tickerIndex \in SeqsUpTo(IndexEntries, MaxIndexLen)
    /\ IngestIdle
    /\ previousTickers = <<>>
    /\ tickersBranch = "none"
    /\ remoteFilings = [k \in RawKeys |-> <<>>]
    /\ FnUnused
    /\ TrUnused
    /\ MainUnused
    /\ RateUnused

NextSinglePhase ==
    \/ SpStart
    \/ SpEntity
    \/ PipelineSaveState
    \/ PipelineUpload
    \/ PipelineExit
    \/ \E cik \in RawKeys, date \in RemoteDateStrs : RemoteGrows(cik, date)

SpecSinglePhase == InitSinglePhase /\ [][NextSinglePhase]_vars

\* C36 (as claimed): in the single-phase pipeline, on a run in which
\* process_tickers finds the ticker index unchanged since the previous run,
\* every listed filing of an indexed entity whose date is later than the
\* entity's watermark is fetched and emitted in that run.
UnchangedIndexStillEmits ==
    (wpc = "done" /\ tickersBranch = "unchanged") =>
        \A i \in 1..Len(tickerIndex) :
            LET cik == IndexKey(i) IN
            \A j \in 1..Len(remoteFilings[cik]) :
                LaterThanWatermark(remoteFilings[cik][j].filingDate, wmBefore[cik]) =>
                    RecordOfRemote(cik, remoteFilings[cik][j]) \in Range(allRecords)

----------------------------------------------------------------------------
\* Successive runs of process_filings over a growing remote list.

InitFilingsRuns ==
    /\ asset = "filings"
    /\ WmIdle
    /\ IngestUnused
    /\ previousTickers = <<>>
    /\ tickersBranch = "none"
    /\ remoteFilings = [k \in RawKeys |-> <<>>]
    /\ FnUnused
    /\ TrUnused
    /\ MainUnused
    /\ RateUnused

NextFilingsRuns ==
    \/ \E rows \in TickerTables : PipelineStart(rows)
    \/ SpEntity
    \/ PipelineSaveState
    \/ PipelineUpload
    \/ PipelineExit
    \/ \E cik \in RawKeys, date \in RemoteDateStrs : RemoteGrows(cik, date)

SpecFilingsRuns == InitFilingsRuns /\ [][NextFilingsRuns]_vars

\* C37 (as claimed): across successive runs of process_filings whose fetches
\* all succeed, over a remote list that only grows, every filing of an entity
\* is emitted in exactly one run: no run emits a record an earlier run has
\* uploaded, and once a run over the entity is through every filing listed
\* for it has been uploaded, a filing dated as the watermark but first listed
\* after the run that set the watermark included.
EveryFilingEmittedOnce ==
    /\ wpc \in {"loop", "save_state", "returned"} => Range(allRecords) \cap sink = {}
    /\ wpc = "done" =>
          \A i \in 1..Len(tickersData) :
              LET cik == tickersData[i] IN
              \A j \in 1..Len(remoteFilings[cik]) :
                  RecordOfRemote(cik, remoteFilings[cik][j]) \in sink


----------------------------------------------------------------------------
\* The companies transform applied to one entity: every shape of the tickers
\* of the snapshot and of the index entry.

\* the "tickers", "name" and "sic" keys of a submissions document
TickersParts == {EmptyDict, [tickers |-> <<>>], [tickers |-> <<"SNAP">>],
                 [tickers |-> <<"SNAP", "ALT">>]}
NameParts == {EmptyDict, [name |-> ""], [name |-> "Co"]}
SicParts == {EmptyDict, [sic |-> "1234"]}

CompanySnapshots ==
    {[kind |-> "payload"] @@ t @@ n @@ s :
        t \in TickersParts, n \in NameParts, s \in SicParts}
    \cup {Absent, ErrorSentinel("500 Server Error", CikKey(1))}

\* the entry of the index for the entity: with a ticker, with an empty one,
\* with null
TickerEntries == [cik_str : {1}, ticker : {"TKR", "", None}, title : {"Index Co"}]

InitCompanyFn ==
    /\ stream = "submissions"
    /\ tickerIndex \in {<<e>> : e \in TickerEntries}
    /\ IngestIdle
    /\ fnDoc \in CompanySnapshots
    /\ fnLast = None
    /\ fnOut = [status |-> "unused"]
    /\ fnPc = "input"
    /\ WmUnused
    /\ MainUnused
    /\ RateUnused
    /\ SpUnused
    /\ TrUnused

\* the loop body of run() for the entry: ticker_info = ticker_map.get(cik, {})
ApplyCompanyOfEntry ==
    /\ fnPc = "input"
    /\ fnOut' = CompanyOfEntity(IndexKey(1), fnDoc, TickerMapGet(tickerIndex, IndexKey(1)))
    /\ fnPc' = "applied_companies"
    /\ UNCHANGED <<fnDoc, fnLast>>
    /\ UNCHANGED notFn

NextCompanyFn == ApplyCompanyOfEntry

SpecCompanyFn == InitCompanyFn /\ [][NextCompanyFn]_vars

\* C38 (as claimed): the ticker of a company record is the ticker of the
\* entity's index entry when that is non-empty, the first ticker of the
\* submissions snapshot only when the index entry has none, and null only
\* when neither has one.
TickerFromIndexFirst ==
    (fnPc = "applied_companies" /\ fnOut.status = "ok") =>
        LET indexTicker == Get(tickerIndex[1], "ticker", None)
            snapTickers == Get(fnDoc, "tickers", <<>>)
            ticker == fnOut.records[1].ticker
        IN IF Truthy(indexTicker) THEN ticker = indexTicker
           ELSE IF snapTickers # <<>> THEN ticker = snapTickers[1]
           ELSE ticker = None

====
